---- MODULE Spec2Model ----
(***************************************************************************)
(* Verification model of the document-ingestion core of backend-python:    *)
(*   services/ocr_service.py        OCRService (engine selection)          *)
(*   services/document_processor.py DocumentProcessor (regex parsers)      *)
(*                                                                         *)
(*   api/v1/document.py             upload endpoint and background job     *)
(*   utils/file_handler.py          FileHandler (validation, temp files)   *)
(*   services/ai_service.py         AIService.categorize_transaction       *)
(*   services/whatsapp_ai.py        WhatsAppAIService (message dispatch)   *)
(*                                                                         *)
(* The specifications share the variables below.  Spec drives one          *)
(* OCRService instance, DocSpec one DocumentProcessor call, PipeSpec one   *)
(* upload through the document endpoint and its background job, WaSpec     *)
(* one WhatsApp webhook message.  These objects share no state, so each    *)
(* specification leaves the other objects' variables at their initial      *)
(* value.                                                                  *)
(***************************************************************************)
EXTENDS Integers, Sequences, FiniteSets, TLC

VARIABLES
    pytesseract,            \* module global: import of pytesseract succeeded
    cv2,                    \* module global: import of cv2 succeeded
    np,                     \* module global: import of numpy succeeded
    azure_doc_client,       \* self.azure_doc_client is not None
    easyocr_reader,         \* self.easyocr_reader is not None
    google_vision_client,   \* self.google_vision_client is not None
    ocrCall,                \* arguments of the extract_text_from_image call
    ocrInvoked,             \* engines invoked by that call, in order
    ocrResult,              \* what the call gave back to its caller
    docText,                \* the text handed to the DocumentProcessor
    docOp,                  \* the DocumentProcessor method that was called
    docRet,                 \* what that method gave back to its caller
    request,                \* the upload handed to process_document
    response,               \* the HTTP answer of process_document
    files,                  \* the files present in temp_uploads
    job,                    \* the process_document_background task
    reports,                \* payloads handed to send_results_to_backend
    removed,                \* paths handed to cleanup_temp_file, in order
    waMessage,              \* the WhatsAppMessage the webhook built
    waResponse,             \* what process_incoming_message returned
    waTask,                 \* the background task the webhook added
    waHandled               \* the handler handle_whatsapp_processing ran

ocrVars == <<pytesseract, cv2, np, azure_doc_client, easyocr_reader,
             google_vision_client, ocrCall, ocrInvoked, ocrResult>>
docVars == <<docText, docOp, docRet>>
pipeVars == <<request, response, files, job, reports, removed>>
waVars == <<waMessage, waResponse, waTask, waHandled>>
vars == <<pytesseract, cv2, np, azure_doc_client, easyocr_reader,
          google_vision_client, ocrCall, ocrInvoked, ocrResult,
          docText, docOp, docRet,
          request, response, files, job, reports, removed,
          waMessage, waResponse, waTask, waHandled>>

None == "None"

\* The return value of a call that has not been made.
Pending == [kind |-> "pending"]

\* The document endpoint before a request: nothing uploaded, no task.
NoRequest == [kind |-> "none"]
NoJob == [pc |-> "none"]
PipeIdle ==
    /\ request = NoRequest
    /\ response = Pending
    /\ files = {}
    /\ job = NoJob
    /\ reports = <<>>
    /\ removed = <<>>

\* The WhatsApp webhook before a message.
NoMessage == [kind |-> "none"]
NoTask == [kind |-> "none"]
WaIdle ==
    /\ waMessage = NoMessage
    /\ waResponse = Pending
    /\ waTask = NoTask
    /\ waHandled = None

(***************************************************************************)
(* OCRService                                                              *)
(***************************************************************************)

Engines == {"azure", "tesseract", "easyocr", "google_vision"}

\* The method argument: "auto", an engine name, or any other string.
Methods == Engines \cup {"auto", "paddle"}

\* Confidences are kept in hundredths (0.9 is 90).
EngineText(e) == "text of " \o e
EngineConfidence(e) ==
    CASE e = "azure" -> 95
      [] e = "google_vision" -> 90
      [] e = "easyocr" -> 85
      [] OTHER -> 80
EngineError(e) == e \o " error"

\* What one engine does when it is invoked on the image: it returns the
\* dict {"text", "confidence"} or it raises.
Returned(e) == [raised |-> FALSE, text |-> EngineText(e),
                confidence |-> EngineConfidence(e)]
Raised(msg) == [raised |-> TRUE, msg |-> msg]
Outcomes == [Engines -> {"ok", "raise"}]

\* What cv2 finds at image_path: no loadable image, a conversion that
\* raises, or an image with the given Laplacian variance.
Variances == {100, 500, 501, 600}
Images == {[kind |-> "unreadable", variance |-> 0],
           [kind |-> "error", variance |-> 0]}
          \cup {[kind |-> "ok", variance |-> v] : v \in Variances}

ComplexVariance == 500

CheckDependencies(method) ==
    CASE method = "azure" -> azure_doc_client
      [] method = "tesseract" -> pytesseract /\ cv2 /\ np
      [] method = "easyocr" -> easyocr_reader
      [] method = "google_vision" -> google_vision_client
      [] OTHER -> FALSE

\* available_methods as extract_text_from_image builds it (lines 132-140).
AvailableMethods ==
    (IF CheckDependencies("azure") THEN <<"azure">> ELSE <<>>)
    \o (IF CheckDependencies("tesseract") THEN <<"tesseract">> ELSE <<>>)
    \o (IF CheckDependencies("easyocr") THEN <<"easyocr">> ELSE <<>>)
    \o (IF CheckDependencies("google_vision") THEN <<"google_vision">> ELSE <<>>)

InSeq(x, s) == \E i \in 1..Len(s) : s[i] = x

\* ChooseBestMethod without the google_vision preference of lines 340-341.
ChooseBestMethod_NoVision(image, available_methods) ==
    IF InSeq("azure", available_methods) THEN "azure"
    ELSE IF /\ cv2 /\ np
            /\ InSeq("easyocr", available_methods)
            /\ InSeq("tesseract", available_methods)
            /\ image.kind = "ok"
         THEN IF image.variance > ComplexVariance THEN "easyocr" ELSE "tesseract"
    ELSE IF Len(available_methods) > 0 THEN available_methods[1]
    ELSE "tesseract"

\* ChooseBestMethod with the threshold test of line 353 written >=.
ChooseBestMethod_Inclusive(image, available_methods) ==
    IF InSeq("azure", available_methods) THEN "azure"
    ELSE IF InSeq("google_vision", available_methods) THEN "google_vision"
    ELSE IF /\ cv2 /\ np
            /\ InSeq("easyocr", available_methods)
            /\ InSeq("tesseract", available_methods)
            /\ image.kind = "ok"
         THEN IF image.variance >= ComplexVariance THEN "easyocr" ELSE "tesseract"
    ELSE IF Len(available_methods) > 0 THEN available_methods[1]
    ELSE "tesseract"

ChooseBestMethod(image, available_methods) ==
    IF InSeq("azure", available_methods) THEN "azure"
    ELSE IF InSeq("google_vision", available_methods) THEN "google_vision"
    ELSE IF /\ cv2 /\ np
            /\ InSeq("easyocr", available_methods)
            /\ InSeq("tesseract", available_methods)
            /\ image.kind = "ok"
         THEN IF image.variance > ComplexVariance THEN "easyocr" ELSE "tesseract"
    ELSE IF Len(available_methods) > 0 THEN available_methods[1]
    ELSE "tesseract"

\* A selection that takes azure whenever it is available, whatever the
\* method asked for.
SelectedMethod_AzureFirst(method, image) ==
    LET m == IF method = "auto" \/ InSeq("azure", AvailableMethods)
             THEN IF InSeq("azure", AvailableMethods) THEN "azure"
                  ELSE ChooseBestMethod(image, AvailableMethods)
             ELSE method
    IN IF ~CheckDependencies(m) THEN AvailableMethods[1] ELSE m

\* The method after lines 150-159: auto-selection, then the replacement of
\* an unavailable method by available_methods[0].
SelectedMethod(method, image) ==
    LET m == IF method = "auto"
             THEN IF InSeq("azure", AvailableMethods) THEN "azure"
                  ELSE ChooseBestMethod(image, AvailableMethods)
             ELSE method
    IN IF ~CheckDependencies(m) THEN AvailableMethods[1] ELSE m

\* _azure_document_ocr, _tesseract_ocr, _easyocr_extraction and
\* _google_vision_ocr: each raises when its dependencies are missing and
\* otherwise does what the engine does on this image.
UnavailableMsg(e) ==
    CASE e = "azure" -> "Azure Document Intelligence not available"
      [] e = "tesseract" -> "Tesseract dependencies not available"
      [] e = "easyocr" -> "EasyOCR dependencies not available"
      [] OTHER -> "Google Vision dependencies not available"

InvokeEngine(e, outcome) ==
    IF ~CheckDependencies(e) THEN Raised(UnavailableMsg(e))
    ELSE IF outcome[e] = "raise" THEN Raised(EngineError(e))
    ELSE Returned(e)

\* The for/else loop of lines 172-188, from index i of available_methods.
\* It gives the first engine that returns, with the engines it went through.
RECURSIVE FallbackLoop(_, _, _)
FallbackLoop(i, outcome, tried) ==
    IF i > Len(AvailableMethods)
    THEN [result |-> Raised("All available OCR methods failed"),
          method |-> None, invoked |-> tried]
    ELSE LET e == AvailableMethods[i]
             r == InvokeEngine(e, outcome)
         IN IF r.raised
            THEN FallbackLoop(i + 1, outcome, Append(tried, e))
            ELSE [result |-> r, method |-> e, invoked |-> Append(tried, e)]

\* The body of the try block, lines 162-188.
TryBlock(method, outcome) ==
    IF method \in Engines /\ CheckDependencies(method)
    THEN [result |-> InvokeEngine(method, outcome), method |-> method,
          invoked |-> <<method>>]
    ELSE LET f == FallbackLoop(1, outcome, <<>>)
         IN [result |-> f.result,
             method |-> IF f.method = None THEN method ELSE f.method,
             invoked |-> f.invoked]

OCRResult(text, confidence, method_used) ==
    [raised |-> FALSE, extracted_text |-> text, confidence |-> confidence,
     method_used |-> method_used]

UnavailableText == "OCR services unavailable. Please configure Azure Document Intelligence or install OCR dependencies."

\* An except clause that lets the exception go on to the caller.
ExceptClause_Reraise(r, method) ==
    [raised |-> TRUE, extracted_text |-> r.msg, confidence |-> 0,
     method_used |-> method]

\* The except clause of lines 199-206.
ExceptClause(r, method) ==
    OCRResult("OCR extraction failed: " \o r.msg, 0, method)

\* extract_text_from_image: the value handed to the caller and the engines
\* that were invoked on the way.
ExtractTextFromImage(method, image, outcome) ==
    IF Len(AvailableMethods) = 0
    THEN [ret |-> OCRResult(UnavailableText, 0, "none"), invoked |-> <<>>]
    ELSE LET sel == SelectedMethod(method, image)
             t == TryBlock(sel, outcome)
         IN [ret |-> IF t.result.raised
                     THEN ExceptClause(t.result, t.method)
                     ELSE OCRResult(t.result.text, t.result.confidence, t.method),
             invoked |-> t.invoked]

NoCall == [method |-> None]

\* The service after __init__: each dependency is present or not.
Init ==
    /\ pytesseract \in BOOLEAN
    /\ cv2 \in BOOLEAN
    /\ np \in BOOLEAN
    /\ azure_doc_client \in BOOLEAN
    /\ easyocr_reader \in BOOLEAN
    /\ google_vision_client \in BOOLEAN
    /\ ocrCall = NoCall
    /\ ocrInvoked = <<>>
    /\ ocrResult = None
    /\ docText = <<>>
    /\ docOp = None
    /\ docRet = Pending
    /\ PipeIdle
    /\ WaIdle

\* One call of extract_text_from_image.  The call reads the dependency
\* flags and writes none of them, so one call per behaviour covers every
\* call the service can receive.
ExtractText ==
    /\ ocrCall = NoCall
    /\ \E method \in Methods, image \in Images, outcome \in Outcomes :
         LET r == ExtractTextFromImage(method, image, outcome)
         IN /\ ocrCall' = [method |-> method, image |-> image, outcome |-> outcome]
            /\ ocrInvoked' = r.invoked
            /\ ocrResult' = r.ret
    /\ UNCHANGED <<pytesseract, cv2, np, azure_doc_client, easyocr_reader,
                   google_vision_client, docText, docOp, docRet,
                   pipeVars, waVars>>

Next == ExtractText

Spec == Init /\ [][Next]_vars

(***************************************************************************)
(* Strings and regular expressions                                         *)
(*                                                                         *)
(* A Python str is a sequence of characters, each a one-character string;  *)
(* the rupee sign is the character "₹".  The alphabet is ASCII letters,    *)
(* digits, punctuation, blank, newline and the rupee sign.                 *)
(***************************************************************************)

Digit == {"0", "1", "2", "3", "4", "5", "6", "7", "8", "9"}
UpperSeq == <<"A", "B", "C", "D", "E", "F", "G", "H", "I", "J", "K", "L", "M",
              "N", "O", "P", "Q", "R", "S", "T", "U", "V", "W", "X", "Y", "Z">>
LowerSeq == <<"a", "b", "c", "d", "e", "f", "g", "h", "i", "j", "k", "l", "m",
              "n", "o", "p", "q", "r", "s", "t", "u", "v", "w", "x", "y", "z">>
UpperSet == {UpperSeq[i] : i \in DOMAIN UpperSeq}
LowerSet == {LowerSeq[i] : i \in DOMAIN LowerSeq}
Alpha == UpperSet \cup LowerSet
WordChar == Alpha \cup Digit \cup {"_"}             \* \w
SpaceChar == {" ", "\n", "\t"}                      \* \s
Rupee == "₹"

LowerOf == [c \in UpperSet |-> LowerSeq[CHOOSE i \in DOMAIN UpperSeq : UpperSeq[i] = c]]
UpperOf == [c \in LowerSet |-> UpperSeq[CHOOSE i \in DOMAIN LowerSeq : LowerSeq[i] = c]]
LowerChar(c) == IF c \in UpperSet THEN LowerOf[c] ELSE c
UpperChar(c) == IF c \in LowerSet THEN UpperOf[c] ELSE c

\* str.lower()
StrLower(s) == [i \in 1..Len(s) |-> LowerChar(s[i])]

\* One character against a character class, under re.IGNORECASE when ic.
InClass(c, cs, ic) ==
    \/ c \in cs
    \/ ic /\ (LowerChar(c) \in cs \/ UpperChar(c) \in cs)

\* A literal at position i of s.
LitAt(lit, s, i, ic) ==
    /\ i + Len(lit) - 1 <= Len(s)
    /\ \A j \in 1..Len(lit) :
         IF ic THEN LowerChar(s[i + j - 1]) = LowerChar(lit[j])
         ELSE s[i + j - 1] = lit[j]

\* \b at position i: exactly one side of the position is a word character.
WordBoundary(s, i) ==
    LET before == i > 1 /\ s[i - 1] \in WordChar
        after == i <= Len(s) /\ s[i] \in WordChar
    IN before # after

\* $ without re.MULTILINE: the end, or just before a final newline.
AtEnd(s, i) == i = Len(s) + 1 \/ (i = Len(s) /\ s[i] = "\n")

\* Regular expressions are sequences of items.
Lit(s) == [t |-> "lit", s |-> s]
Rep(cs, min, max) == [t |-> "rep", cs |-> cs, min |-> min, max |-> max, lazy |-> FALSE]
LazyRep(cs, min, max) == [t |-> "rep", cs |-> cs, min |-> min, max |-> max, lazy |-> TRUE]
Unbounded == -1
Star(cs) == Rep(cs, 0, Unbounded)
Plus(cs) == Rep(cs, 1, Unbounded)
Opt(cs) == Rep(cs, 0, 1)
Alt(alts) == [t |-> "alt", alts |-> alts]
WB == [t |-> "wb"]
EOS == [t |-> "eos"]
GroupOpen == [t |-> "open"]
GroupClose == [t |-> "close"]

NoMatch == [ok |-> FALSE]

\* The number of characters from position i that are in the class, up to max.
RECURSIVE Run(_, _, _, _, _)
Run(cs, s, i, max, ic) ==
    IF max = 0 \/ i > Len(s) \/ ~InClass(s[i], cs, ic) THEN 0
    ELSE 1 + Run(cs, s, i + 1, IF max = Unbounded THEN Unbounded ELSE max - 1, ic)

\* Backtracking match of items k.. of re at position i of s, the way the
\* re module does it: a greedy repetition tries the longest run first, a
\* lazy one the shortest, an alternation its branches left to right; the
\* first way that lets the rest of the pattern match is the match.
RECURSIVE MatchAt(_, _, _, _, _, _)
RECURSIVE TryRep(_, _, _, _, _, _, _, _, _)
RECURSIVE TryAlt(_, _, _, _, _, _, _)

MatchAt(re, k, s, i, ic, cap) ==
    IF k > Len(re) THEN [ok |-> TRUE, end |-> i, cap |-> cap]
    ELSE LET it == re[k]
         IN CASE it.t = "lit" ->
                   IF LitAt(it.s, s, i, ic)
                   THEN MatchAt(re, k + 1, s, i + Len(it.s), ic, cap) ELSE NoMatch
              [] it.t = "wb" ->
                   IF WordBoundary(s, i) THEN MatchAt(re, k + 1, s, i, ic, cap) ELSE NoMatch
              [] it.t = "eos" ->
                   IF AtEnd(s, i) THEN MatchAt(re, k + 1, s, i, ic, cap) ELSE NoMatch
              [] it.t = "open" -> MatchAt(re, k + 1, s, i, ic, <<i, cap[2]>>)
              [] it.t = "close" -> MatchAt(re, k + 1, s, i, ic, <<cap[1], i>>)
              [] it.t = "rep" ->
                   LET n == Run(it.cs, s, i, it.max, ic)
                   IN IF n < it.min THEN NoMatch
                      ELSE IF it.lazy THEN TryRep(re, k, s, i, ic, cap, it.min, n, 1)
                      ELSE TryRep(re, k, s, i, ic, cap, n, it.min, -1)
              [] OTHER -> TryAlt(re, k, s, i, ic, cap, 1)

\* Repetition counts from n to last in steps of step.
TryRep(re, k, s, i, ic, cap, n, last, step) ==
    LET r == MatchAt(re, k + 1, s, i + n, ic, cap)
    IN IF r.ok THEN r
       ELSE IF n = last THEN NoMatch
       ELSE TryRep(re, k, s, i, ic, cap, n + step, last, step)

\* Branches a.. of the alternation re[k]; a branch is a literal or $.
TryAlt(re, k, s, i, ic, cap, a) ==
    IF a > Len(re[k].alts) THEN NoMatch
    ELSE LET b == re[k].alts[a]
             here == IF b.t = "eos" THEN AtEnd(s, i) ELSE LitAt(b.s, s, i, ic)
             len == IF b.t = "eos" THEN 0 ELSE Len(b.s)
             r == IF here THEN MatchAt(re, k + 1, s, i + len, ic, cap) ELSE NoMatch
         IN IF r.ok THEN r ELSE TryAlt(re, k, s, i, ic, cap, a + 1)

\* re.search from position pos: the leftmost match.
RECURSIVE SearchFrom(_, _, _, _)
SearchFrom(re, s, pos, ic) ==
    IF pos > Len(s) + 1 THEN NoMatch
    ELSE LET r == MatchAt(re, 1, s, pos, ic, <<0, 0>>)
         IN IF r.ok THEN [ok |-> TRUE, start |-> pos, end |-> r.end, cap |-> r.cap]
            ELSE SearchFrom(re, s, pos + 1, ic)

Search(re, s, ic) == SearchFrom(re, s, 1, ic)

Slice(s, from, to) == SubSeq(s, from, to - 1)             \* s[from:to]
Group0(s, m) == Slice(s, m.start, m.end)            \* match.group()
Group1(s, m) == Slice(s, m.cap[1], m.cap[2])        \* match.group(1)

\* re.findall for a pattern with one group: group 1 of every
\* non-overlapping match, left to right.
RECURSIVE FindAllFrom(_, _, _, _)
FindAllFrom(re, s, pos, ic) ==
    LET m == SearchFrom(re, s, pos, ic)
    IN IF ~m.ok THEN <<>>
       ELSE <<Group1(s, m)>>
            \o FindAllFrom(re, s, IF m.end = m.start THEN m.end + 1 ELSE m.end, ic)

FindAll(re, s, ic) == FindAllFrom(re, s, 1, ic)

\* re.sub(pattern, '', s): s without its non-overlapping matches.
RECURSIVE SubFrom(_, _, _)
SubFrom(re, s, pos) ==
    LET m == SearchFrom(re, s, pos, FALSE)
    IN IF ~m.ok THEN Slice(s, pos, Len(s) + 1)
       ELSE IF m.end = m.start
       THEN Slice(s, pos, m.start + 1) \o SubFrom(re, s, m.start + 1)
       ELSE Slice(s, pos, m.start) \o SubFrom(re, s, m.end)

SubEmpty(re, s) == SubFrom(re, s, 1)

\* keyword in s
RECURSIVE ContainsFrom(_, _, _)
ContainsFrom(s, kw, i) ==
    IF i + Len(kw) - 1 > Len(s) THEN FALSE
    ELSE LitAt(kw, s, i, FALSE) \/ ContainsFrom(s, kw, i + 1)
Contains(s, kw) == ContainsFrom(s, kw, 1)

\* str.replace(',', '')
RECURSIVE RemoveChar(_, _)
RemoveChar(s, c) ==
    IF s = <<>> THEN <<>>
    ELSE (IF Head(s) = c THEN <<>> ELSE <<Head(s)>>) \o RemoveChar(Tail(s), c)

\* str.split('\n')
RECURSIVE SplitLines(_, _, _)
SplitLines(s, i, cur) ==
    IF i > Len(s) THEN <<cur>>
    ELSE IF s[i] = "\n" THEN <<cur>> \o SplitLines(s, i + 1, <<>>)
    ELSE SplitLines(s, i + 1, Append(cur, s[i]))
Split(s) == SplitLines(s, 1, <<>>)

\* str.strip()
RECURSIVE LStrip(_)
LStrip(s) == IF s # <<>> /\ Head(s) \in SpaceChar THEN LStrip(Tail(s)) ELSE s
RECURSIVE RStrip(_)
RStrip(s) ==
    IF s # <<>> /\ s[Len(s)] \in SpaceChar THEN RStrip(SubSeq(s, 1, Len(s) - 1)) ELSE s
Strip(s) == RStrip(LStrip(s))

\* ' '.join(s.split()): whitespace runs become one blank, none at the ends.
RECURSIVE Collapse(_, _)
Collapse(s, i) ==
    IF i > Len(s) THEN <<>>
    ELSE IF s[i] \in SpaceChar
    THEN (IF i > 1 /\ s[i - 1] \notin SpaceChar THEN <<" ">> ELSE <<>>) \o Collapse(s, i + 1)
    ELSE <<s[i]>> \o Collapse(s, i + 1)
JoinSplit(s) == LET t == Strip(s) IN Collapse(t, 1)

(***************************************************************************)
(* Decimal numbers                                                         *)
(*                                                                         *)
(* A float read from decimal text is kept exactly, as the pair <<n, e>>    *)
(* that stands for n / 10^e, with n not a multiple of 10 unless e = 0.     *)
(***************************************************************************)

RECURSIVE Normalise(_, _)
Normalise(n, e) ==
    IF e > 0 /\ n % 10 = 0 THEN Normalise(n \div 10, e - 1) ELSE <<n, e>>

DecZero == <<0, 0>>

RECURSIVE Pow10(_)
Pow10(e) == IF e = 0 THEN 1 ELSE 10 * Pow10(e - 1)

AddDec(a, b) ==
    LET e == IF a[2] > b[2] THEN a[2] ELSE b[2]
    IN Normalise(a[1] * Pow10(e - a[2]) + b[1] * Pow10(e - b[2]), e)

SubDec(a, b) ==
    LET e == IF a[2] > b[2] THEN a[2] ELSE b[2]
    IN Normalise(a[1] * Pow10(e - a[2]) - b[1] * Pow10(e - b[2]), e)

DigitSeq == <<"0", "1", "2", "3", "4", "5", "6", "7", "8", "9">>
DigitValue == [c \in Digit |-> (CHOOSE i \in DOMAIN DigitSeq : DigitSeq[i] = c) - 1]

RECURSIVE IntOf(_, _)
IntOf(s, acc) == IF s = <<>> THEN acc ELSE IntOf(Tail(s), 10 * acc + DigitValue[Head(s)])

IndexOf(s, c) ==
    IF \E i \in 1..Len(s) : s[i] = c
    THEN CHOOSE i \in 1..Len(s) : s[i] = c /\ \A j \in 1..(i - 1) : s[j] # c
    ELSE Len(s) + 1

\* float(s) for s made of digits and dots: a ValueError unless s has a
\* digit and at most one dot.
Float(s) ==
    LET dots == {i \in 1..Len(s) : s[i] = "."}
        p == IndexOf(s, ".")
        ip == SubSeq(s, 1, p - 1)
        fp == SubSeq(s, p + 1, Len(s))
    IN IF \/ \E i \in 1..Len(s) : s[i] \notin Digit \cup {"."}
          \/ Cardinality(dots) > 1
          \/ Len(ip) + Len(fp) = 0
       THEN [ok |-> FALSE]
       ELSE [ok |-> TRUE, val |-> Normalise(IntOf(ip \o fp, 0), Len(fp))]

\* Python truthiness of an Optional[float] and of an Optional[str].
TruthyNum(x) == x # None /\ x # DecZero
TruthyStr(x) == x # None /\ x # <<>>

(***************************************************************************)
(* DocumentProcessor                                                       *)
(***************************************************************************)

AmountChars == Digit \cup {","}
DateSep == {"/", "-"}

\* self.date_patterns
DatePatterns == <<
    <<WB, Rep(Digit, 1, 2), Rep(DateSep, 1, 1), Rep(Digit, 1, 2),
      Rep(DateSep, 1, 1), Rep(Digit, 2, 4), WB>>,
    <<WB, Rep(Digit, 1, 2), Plus(SpaceChar),
      Alt(<<Lit(<<"J", "a", "n">>), Lit(<<"F", "e", "b">>), Lit(<<"M", "a", "r">>), Lit(<<"A", "p", "r">>), Lit(<<"M", "a", "y">>), Lit(<<"J", "u", "n">>),
            Lit(<<"J", "u", "l">>), Lit(<<"A", "u", "g">>), Lit(<<"S", "e", "p">>), Lit(<<"O", "c", "t">>), Lit(<<"N", "o", "v">>), Lit(<<"D", "e", "c">>)>>),
      Star(LowerSet), Plus(SpaceChar), Rep(Digit, 2, 4), WB>>,
    <<WB, Rep(Digit, 4, 4), Rep(DateSep, 1, 1), Rep(Digit, 1, 2),
      Rep(DateSep, 1, 1), Rep(Digit, 1, 2), WB>> >>

\* [0-9,]+\.?[0-9]* in a group
AmountGroup == <<GroupOpen, Plus(AmountChars), Opt({"."}), Star(Digit), GroupClose>>

\* self.amount_patterns
AmountPatterns == <<
    <<Lit(<<Rupee>>), Star(SpaceChar)>> \o AmountGroup,
    <<Lit(<<"R", "s">>), Opt({"."}), Star(SpaceChar)>> \o AmountGroup,
    <<WB, GroupOpen, Plus(AmountChars), Lit(<<".">>), Rep(Digit, 2, 2), GroupClose, WB>>,
    <<WB, GroupOpen, Plus(AmountChars), GroupClose, WB>> >>

\* _extract_amount_from_line: the first pattern, in order, whose leftmost
\* match parses as a float; None when there is none.
RECURSIVE ExtractAmountFromLineFrom(_, _)
ExtractAmountFromLineFrom(line, p) ==
    IF p > Len(AmountPatterns) THEN None
    ELSE LET m == Search(AmountPatterns[p], line, FALSE)
             f == Float(RemoveChar(Group1(line, m), ","))
         IN IF m.ok /\ f.ok THEN f.val
            ELSE ExtractAmountFromLineFrom(line, p + 1)

ExtractAmountFromLine(line) == ExtractAmountFromLineFrom(line, 1)

\* The first pattern of a list that matches, with its match.
RECURSIVE FirstMatch(_, _, _, _)
FirstMatch(patterns, p, s, ic) ==
    IF p > Len(patterns) THEN NoMatch
    ELSE LET m == Search(patterns[p], s, ic)
         IN IF m.ok THEN m ELSE FirstMatch(patterns, p + 1, s, ic)

\* _extract_date
ExtractDate(text) ==
    LET m == FirstMatch(DatePatterns, 1, text, TRUE)
    IN IF m.ok THEN Group0(text, m) ELSE None

\* The categories table of _auto_categorize_transaction, in dict order.
Categories == <<
    [name |-> "food", keywords |-> <<
        <<"r", "e", "s", "t", "a", "u", "r", "a", "n", "t">>, <<"f", "o", "o", "d">>,
        <<"c", "a", "f", "e">>, <<"h", "o", "t", "e", "l">>,
        <<"d", "i", "n", "i", "n", "g">>, <<"s", "w", "i", "g", "g", "y">>,
        <<"z", "o", "m", "a", "t", "o">>>>],
    [name |-> "fuel", keywords |-> <<
        <<"p", "e", "t", "r", "o", "l">>, <<"d", "i", "e", "s", "e", "l">>,
        <<"f", "u", "e", "l">>, <<"g", "a", "s">>,
        <<"h", "p">>, <<"i", "o", "c">>,
        <<"b", "p", "c", "l">>>>],
    [name |-> "utilities", keywords |-> <<
        <<"e", "l", "e", "c", "t", "r", "i", "c", "i", "t", "y">>, <<"w", "a", "t", "e", "r">>,
        <<"g", "a", "s">>, <<"p", "h", "o", "n", "e">>,
        <<"i", "n", "t", "e", "r", "n", "e", "t">>, <<"b", "r", "o", "a", "d", "b", "a", "n", "d">>>>],
    [name |-> "transport", keywords |-> <<
        <<"u", "b", "e", "r">>, <<"o", "l", "a">>,
        <<"t", "a", "x", "i">>, <<"m", "e", "t", "r", "o">>,
        <<"b", "u", "s">>, <<"a", "u", "t", "o">>>>],
    [name |-> "shopping", keywords |-> <<
        <<"a", "m", "a", "z", "o", "n">>, <<"f", "l", "i", "p", "k", "a", "r", "t">>,
        <<"m", "a", "l", "l">>, <<"s", "t", "o", "r", "e">>,
        <<"p", "u", "r", "c", "h", "a", "s", "e">>>>],
    [name |-> "medical", keywords |-> <<
        <<"h", "o", "s", "p", "i", "t", "a", "l">>, <<"p", "h", "a", "r", "m", "a", "c", "y">>,
        <<"d", "o", "c", "t", "o", "r">>, <<"m", "e", "d", "i", "c", "a", "l">>,
        <<"c", "l", "i", "n", "i", "c">>>>],
    [name |-> "education", keywords |-> <<
        <<"s", "c", "h", "o", "o", "l">>, <<"c", "o", "l", "l", "e", "g", "e">>,
        <<"u", "n", "i", "v", "e", "r", "s", "i", "t", "y">>, <<"c", "o", "u", "r", "s", "e">>,
        <<"t", "r", "a", "i", "n", "i", "n", "g">>>>],
    [name |-> "entertainment", keywords |-> <<
        <<"m", "o", "v", "i", "e">>, <<"c", "i", "n", "e", "m", "a">>,
        <<"n", "e", "t", "f", "l", "i", "x">>, <<"s", "p", "o", "t", "i", "f", "y">>,
        <<"g", "a", "m", "e">>>>] >>

AnyKeyword(s, keywords) == \E i \in 1..Len(keywords) : Contains(s, keywords[i])

RECURSIVE CategorizeFrom(_, _)
CategorizeFrom(description_lower, c) ==
    IF c > Len(Categories) THEN "miscellaneous"
    ELSE IF AnyKeyword(description_lower, Categories[c].keywords) THEN Categories[c].name
    ELSE CategorizeFrom(description_lower, c + 1)

\* A categorizer that does not lower-case the description.
AutoCategorizeTransaction_CaseSensitive(description) == CategorizeFrom(description, 1)

\* _auto_categorize_transaction
AutoCategorizeTransaction(description) == CategorizeFrom(StrLower(description), 1)

\* The debit words of _parse_transaction_line.
DebitWords == <<<<"d", "r">>, <<"d", "e", "b", "i", "t">>,
               <<"w", "i", "t", "h", "d", "r", "a", "w", "a", "l">>, <<"p", "a", "i", "d">>>>

\* An amount shape that needs its rupee sign.
AmountShape_RupeeOnly ==
    <<Lit(<<Rupee>>), Star(SpaceChar), Plus(AmountChars), Opt({"."}), Star(Digit)>>

\* ₹?\s*[0-9,]+\.?[0-9]* as _parse_transaction_line deletes it.
AmountShape == <<Opt({Rupee}), Star(SpaceChar), Plus(AmountChars), Opt({"."}), Star(Digit)>>

\* A method's return value None.
NoneRet == [kind |-> "none"]

TransactionData(date, description, amount, transaction_type, category, confidence) ==
    [kind |-> "transaction", date |-> date, description |-> description, amount |-> amount,
     transaction_type |-> transaction_type, category |-> category,
     confidence |-> confidence]

\* A line parser that keeps the dated lines whose amount is zero.
ParseTransactionLine_KeepsZeroAmount(line) ==
    LET date_match == FirstMatch(DatePatterns, 1, line, FALSE)
        amount == ExtractAmountFromLine(line)
        transaction_type == IF AnyKeyword(StrLower(line), DebitWords)
                            THEN "debit" ELSE "credit"
        description == JoinSplit(SubEmpty(AmountShape, SubEmpty(DatePatterns[1], line)))
    IN IF ~date_match.ok THEN NoneRet
       ELSE IF amount = None THEN NoneRet
       ELSE TransactionData(Group0(line, date_match), description, amount,
                            transaction_type, AutoCategorizeTransaction(description),
                            IF TruthyNum(amount) /\ date_match.ok THEN 80 ELSE 50)

\* A line parser that keeps the lines in which it finds no date.
ParseTransactionLine_KeepsUndated(line) ==
    LET date_match == FirstMatch(DatePatterns, 1, line, FALSE)
        amount == ExtractAmountFromLine(line)
        transaction_type == IF AnyKeyword(StrLower(line), DebitWords)
                            THEN "debit" ELSE "credit"
        description == JoinSplit(SubEmpty(AmountShape, SubEmpty(DatePatterns[1], line)))
    IN TransactionData(IF date_match.ok THEN Group0(line, date_match) ELSE None,
                       description, amount,
                       transaction_type, AutoCategorizeTransaction(description),
                       IF TruthyNum(amount) /\ date_match.ok THEN 80 ELSE 50)

\* _parse_transaction_line
ParseTransactionLine(line) ==
    LET date_match == FirstMatch(DatePatterns, 1, line, FALSE)
        amount == ExtractAmountFromLine(line)
        transaction_type == IF AnyKeyword(StrLower(line), DebitWords)
                            THEN "debit" ELSE "credit"
        description == JoinSplit(SubEmpty(AmountShape, SubEmpty(DatePatterns[1], line)))
    IN IF ~date_match.ok THEN NoneRet
       ELSE IF ~TruthyNum(amount) THEN NoneRet
       ELSE TransactionData(Group0(line, date_match), description, amount,
                            transaction_type, AutoCategorizeTransaction(description),
                            IF TruthyNum(amount) /\ date_match.ok THEN 80 ELSE 50)

MinVendorLen == 3
GstinLen == 15
MaxLineItems == 10

\* \s*:?\s* and the like, as the labelled patterns spell them.
Spaces == Star(SpaceChar)
Colon == Opt({":"})

\* invoice_patterns of parse_invoice
InvoicePatterns == <<
    <<Lit(<<"i", "n", "v", "o", "i", "c", "e">>), Spaces, Opt({"#"}), Spaces, Colon, Spaces,
      GroupOpen, Plus(WordChar), GroupClose>>,
    <<Lit(<<"i", "n", "v">>), Spaces, Opt({"#"}), Spaces, Colon, Spaces,
      GroupOpen, Plus(WordChar), GroupClose>>,
    <<Lit(<<"b", "i", "l", "l">>), Spaces, Opt({"#"}), Spaces, Colon, Spaces,
      GroupOpen, Plus(WordChar), GroupClose>> >>

\* [A-Za-z\s]+? in a group
NameGroup == <<GroupOpen, LazyRep(Alpha \cup SpaceChar, 1, Unbounded), GroupClose>>

\* vendor_patterns of _extract_vendor_name
VendorPatterns == <<
    <<Lit(<<"f", "r", "o", "m">>), Spaces, Colon, Spaces>> \o NameGroup
        \o <<Alt(<<Lit(<<"\n">>), Lit(<<"t", "a", "x">>), Lit(<<"g", "s", "t">>)>>)>>,
    <<Lit(<<"v", "e", "n", "d", "o", "r">>), Spaces, Colon, Spaces>> \o NameGroup
        \o <<Alt(<<Lit(<<"\n">>), EOS>>)>>,
    <<Lit(<<"b", "i", "l", "l">>), Plus(SpaceChar), Lit(<<"t", "o">>), Spaces, Colon, Spaces>> \o NameGroup
        \o <<Alt(<<Lit(<<"\n">>), EOS>>)>> >>

\* _extract_vendor_name: the first pattern whose capture, stripped, is
\* longer than 3 characters.
RECURSIVE ExtractVendorNameFrom(_, _)
ExtractVendorNameFrom(text, p) ==
    IF p > Len(VendorPatterns) THEN None
    ELSE LET m == Search(VendorPatterns[p], text, TRUE)
             vendor_name == Strip(Group1(text, m))
         IN IF m.ok /\ Len(vendor_name) > MinVendorLen THEN vendor_name
            ELSE ExtractVendorNameFrom(text, p + 1)

ExtractVendorName(text) == ExtractVendorNameFrom(text, 1)

\* gstin_pattern of _extract_gstin
GstinPattern ==
    <<Lit(<<"g", "s", "t", "i", "n">>), Spaces, Colon, Spaces,
      GroupOpen, Rep(UpperSet \cup Digit, GstinLen, GstinLen), GroupClose>>

\* _extract_gstin
ExtractGstin(text) ==
    LET m == Search(GstinPattern, text, TRUE)
    IN IF m.ok THEN Group1(text, m) ELSE None

\* The tail \s*:?\s*₹?\s*([0-9,]+\.?[0-9]*) of the total and tax patterns.
LabelledAmount == <<Spaces, Colon, Spaces, Opt({Rupee}), Spaces>> \o AmountGroup

\* total_patterns of _extract_amounts
TotalPatterns == <<
    <<Lit(<<"t", "o", "t", "a", "l">>)>> \o LabelledAmount,
    <<Lit(<<"g", "r", "a", "n", "d">>), Plus(SpaceChar), Lit(<<"t", "o", "t", "a", "l">>)>> \o LabelledAmount,
    <<Lit(<<"a", "m", "o", "u", "n", "t">>), Plus(SpaceChar), Lit(<<"p", "a", "y", "a", "b", "l", "e">>)>> \o LabelledAmount >>

\* tax_patterns of _extract_amounts
TaxPatterns == <<
    <<Alt(<<Lit(<<"g", "s", "t">>), Lit(<<"t", "a", "x">>)>>)>> \o LabelledAmount,
    <<Alt(<<Lit(<<"c", "g", "s", "t">>), Lit(<<"s", "g", "s", "t">>), Lit(<<"i", "g", "s", "t">>)>>)>> \o LabelledAmount >>

\* float(match.replace(',', '')) over the captures of one findall.
RECURSIVE FloatAll(_)
FloatAll(captures) ==
    IF captures = <<>> THEN [ok |-> TRUE, vals |-> <<>>]
    ELSE LET f == Float(RemoveChar(Head(captures), ","))
             rest == FloatAll(Tail(captures))
         IN IF f.ok /\ rest.ok THEN [ok |-> TRUE, vals |-> <<f.val>> \o rest.vals]
            ELSE [ok |-> FALSE]

RECURSIVE SumDec(_)
SumDec(vals) == IF vals = <<>> THEN DecZero ELSE AddDec(Head(vals), SumDec(Tail(vals)))

\* The captures of every tax pattern, pattern by pattern (lines 234-238).
RECURSIVE TaxCaptures(_, _)
TaxCaptures(text, p) ==
    IF p > Len(TaxPatterns) THEN <<>>
    ELSE FindAll(TaxPatterns[p], text, TRUE) \o TaxCaptures(text, p + 1)

ValueError == [kind |-> "raised", exc |-> "ValueError"]

\* _extract_amounts: the dict, with None for a key it does not hold, or
\* the ValueError of a float() it does not catch.
ExtractAmounts(text) ==
    LET m == FirstMatch(TotalPatterns, 1, text, TRUE)
        total == IF m.ok THEN Float(RemoveChar(Group1(text, m), ",")) ELSE [ok |-> FALSE]
        taxes == FloatAll(TaxCaptures(text, 1))
    IN IF m.ok /\ ~total.ok THEN ValueError
       ELSE IF ~taxes.ok THEN ValueError
       ELSE [kind |-> "amounts",
             total |-> IF m.ok THEN total.val ELSE None,
             tax |-> IF taxes.vals # <<>> THEN SumDec(taxes.vals) ELSE None]

\* \d+\.?\d*\s*₹ of _extract_line_items
LineItemPattern == <<Plus(Digit), Opt({"."}), Star(Digit), Spaces, Lit(<<Rupee>>)>>

RECURSIVE LineItemsOf(_)
LineItemsOf(lines) ==
    IF lines = <<>> THEN <<>>
    ELSE LET line == Head(lines)
             amount == ExtractAmountFromLine(line)
         IN (IF Search(LineItemPattern, line, FALSE).ok
             THEN <<[description |-> Strip(line), quantity |-> 1,
                     amount |-> IF TruthyNum(amount) THEN amount ELSE DecZero]>>
             ELSE <<>>)
            \o LineItemsOf(Tail(lines))

\* Line items without the cut after the tenth.
ExtractLineItems_Uncapped(text) == LineItemsOf(Split(text))

\* _extract_line_items
ExtractLineItems(text) ==
    LET items == LineItemsOf(Split(text))
    IN SubSeq(items, 1, IF Len(items) > MaxLineItems THEN MaxLineItems ELSE Len(items))

\* fields_found with the vendor name left out of the count.
FieldsFound_NoVendor(invoice_number, date, vendor_name, total_amount) ==
    (IF TruthyStr(invoice_number) THEN 1 ELSE 0)
    + (IF TruthyStr(date) THEN 1 ELSE 0)
    + (IF TruthyNum(total_amount) THEN 1 ELSE 0)

\* fields_found of parse_invoice (lines 100-105): each field counts when
\* it is truthy.
FieldsFound(invoice_number, date, vendor_name, total_amount) ==
    (IF TruthyStr(invoice_number) THEN 1 ELSE 0)
    + (IF TruthyStr(date) THEN 1 ELSE 0)
    + (IF TruthyStr(vendor_name) THEN 1 ELSE 0)
    + (IF TruthyNum(total_amount) THEN 1 ELSE 0)

\* invoice_number of parse_invoice (lines 77-81)
ExtractInvoiceNumber(text) ==
    LET m == FirstMatch(InvoicePatterns, 1, text, TRUE)
    IN IF m.ok THEN Group1(text, m) ELSE None

\* The InvoiceData parse_invoice fills in from what the extractors gave
\* (lines 84-109), confidence in hundredths; the exception of
\* _extract_amounts goes on to the caller.
InvoiceData(invoice_number, date, vendor_name, vendor_gstin, amounts, line_items) ==
    IF amounts.kind = "raised" THEN amounts
    ELSE LET nonempty == amounts.total # None \/ amounts.tax # None
             total_amount == IF ~nonempty THEN None
                             ELSE IF amounts.total # None THEN amounts.total
                             ELSE DecZero
             tax_amount == IF ~nonempty THEN None
                           ELSE IF amounts.tax # None THEN amounts.tax
                           ELSE DecZero
         IN [kind |-> "invoice",
             invoice_number |-> invoice_number,
             date |-> date,
             vendor_name |-> vendor_name,
             vendor_gstin |-> vendor_gstin,
             total_amount |-> total_amount,
             tax_amount |-> tax_amount,
             line_items |-> line_items,
             confidence |->
                 (FieldsFound(invoice_number, date, vendor_name, total_amount) * 100)
                 \div 4]

\* parse_invoice
ParseInvoice(text) ==
    InvoiceData(ExtractInvoiceNumber(text), ExtractDate(text),
                ExtractVendorName(text), ExtractGstin(text),
                ExtractAmounts(text), ExtractLineItems(text))

\* Any character but a newline: the . of a pattern, over the characters the
\* texts are written in.
Punctuation == {"/", "-", ":", ".", ",", "#", "(", ")", "&", "%"}
NotNewline == (WordChar \cup SpaceChar \cup Punctuation \cup {Rupee}) \ {"\n"}

\* account\s*no\.?\s*:?\s*(\d+) of _extract_account_details
AccPattern == <<Lit(<<"a", "c", "c", "o", "u", "n", "t">>), Spaces, Lit(<<"n", "o">>), Opt({"."}), Spaces, Colon, Spaces,
                GroupOpen, Plus(Digit), GroupClose>>

\* bank_patterns of _extract_account_details
BankPatterns == <<
    <<GroupOpen,
      Alt(<<Lit(<<"h", "d", "f", "c">>),
            Lit(<<"i", "c", "i", "c", "i">>),
            Lit(<<"s", "b", "i">>),
            Lit(<<"a", "x", "i", "s">>),
            Lit(<<"k", "o", "t", "a", "k">>),
            Lit(<<"p", "n", "b">>),
            Lit(<<"b", "o", "b">>),
            Lit(<<"c", "a", "n", "a", "r", "a">>)>>),
      GroupClose>>,
    <<GroupOpen, Plus(UpperSet \cup SpaceChar), Lit(<<"B", "A", "N", "K">>), GroupClose>> >>

\* statement\s+period\s*:?\s*(.+?)(?:\n|$) of _extract_account_details
PeriodPattern == <<Lit(<<"s", "t", "a", "t", "e", "m", "e", "n", "t">>), Plus(SpaceChar), Lit(<<"p", "e", "r", "i", "o", "d">>), Spaces, Colon, Spaces,
                   GroupOpen, LazyRep(NotNewline, 1, Unbounded), GroupClose,
                   Alt(<<Lit(<<"\n">>), EOS>>)>>

\* The details dict from the three matches; a key that is not set is None.
AccountDetails(acc, bank, period, text) ==
    [account_number |-> IF acc.ok THEN Group1(text, acc) ELSE None,
     bank_name |-> IF bank.ok THEN Group1(text, bank) ELSE None,
     statement_period |-> IF period.ok THEN Strip(Group1(text, period)) ELSE None]

\* _extract_account_details
ExtractAccountDetails(text) ==
    AccountDetails(Search(AccPattern, text, TRUE), FirstMatch(BankPatterns, 1, text, TRUE),
                   Search(PeriodPattern, text, TRUE), text)

\* A stripped line shorter than this is not parsed (line 36).
MinLineLen == 10

\* transactions.append(transaction) when the line parser gave a record.
AppendIfAny(transaction) == IF transaction.kind = "none" THEN <<>> ELSE <<transaction>>

\* The loop over the lines without the test of their length.
RECURSIVE ParseLines_AnyLength(_)
ParseLines_AnyLength(lines) ==
    IF lines = <<>> THEN <<>>
    ELSE AppendIfAny(ParseTransactionLine(Strip(Head(lines))))
         \o ParseLines_AnyLength(Tail(lines))

\* The loop over the lines of parse_bank_statement (lines 34-41).
RECURSIVE ParseLines(_)
ParseLines(lines) ==
    IF lines = <<>> THEN <<>>
    ELSE (IF Len(Strip(Head(lines))) < MinLineLen THEN <<>>
          ELSE AppendIfAny(ParseTransactionLine(Strip(Head(lines)))))
         \o ParseLines(Tail(lines))

\* sum(t.amount for t in transactions if t.transaction_type == type and t.amount)
RECURSIVE SumAmounts(_, _)
SumAmounts(transactions, type) ==
    IF transactions = <<>> THEN DecZero
    ELSE IF Head(transactions).transaction_type = type /\ TruthyNum(Head(transactions).amount)
    THEN AddDec(Head(transactions).amount, SumAmounts(Tail(transactions), type))
    ELSE SumAmounts(Tail(transactions), type)

\* A summary whose net amount is the debits less the credits.
Summary_DebitsLessCredits(total_transactions, total_debits, total_credits) ==
    [total_transactions |-> total_transactions,
     total_debits |-> total_debits,
     total_credits |-> total_credits,
     net_amount |-> SubDec(total_debits, total_credits)]

\* summary of parse_bank_statement (lines 47-52)
Summary(total_transactions, total_debits, total_credits) ==
    [total_transactions |-> total_transactions,
     total_debits |-> total_debits,
     total_credits |-> total_credits,
     net_amount |-> SubDec(total_credits, total_debits)]

\* valid_transactions of parse_bank_statement (line 55)
ValidTransactions(transactions) == SelectSeq(transactions, LAMBDA t : t.amount # None)

ZeroDivisionError == [kind |-> "raised", exc |-> "ZeroDivisionError"]

\* The confidence of parse_bank_statement without its guard for the empty list.
ParsingConfidence_Unguarded(transactions) ==
    IF transactions = <<>> THEN ZeroDivisionError
    ELSE [kind |-> "value",
          value |-> (Len(ValidTransactions(transactions)) * 100) \div Len(transactions)]

\* parsing_confidence of parse_bank_statement (line 56), in hundredths.
ParsingConfidence(transactions) ==
    [kind |-> "value",
     value |-> IF transactions # <<>>
               THEN (Len(ValidTransactions(transactions)) * 100) \div Len(transactions)
               ELSE 0]

\* The BankStatementParsing parse_bank_statement builds from the transactions
\* and the account details (lines 43-63).
BankStatementParsing(transactions, account_details, parsing_confidence) ==
    IF parsing_confidence.kind = "raised" THEN parsing_confidence
    ELSE [kind |-> "statement",
          transactions |-> transactions,
          account_details |-> account_details,
          summary |-> Summary(Len(transactions), SumAmounts(transactions, "debit"),
                              SumAmounts(transactions, "credit")),
          parsing_confidence |-> parsing_confidence.value]

\* The statement of the transactions of a text.
StatementOf(transactions, text) ==
    BankStatementParsing(transactions, ExtractAccountDetails(text),
                         ParsingConfidence(transactions))

\* parse_bank_statement
ParseBankStatement(extracted_text) ==
    StatementOf(ParseLines(Split(extracted_text)), extracted_text)

\* The keyword lists of detect_document_type, in the order it tests them.
BankStatementWords == <<<<"s", "t", "a", "t", "e", "m", "e", "n", "t">>,
    <<"a", "c", "c", "o", "u", "n", "t">>,
    <<"b", "a", "l", "a", "n", "c", "e">>,
    <<"t", "r", "a", "n", "s", "a", "c", "t", "i", "o", "n">>,
    <<"b", "a", "n", "k">>>>
InvoiceWords == <<<<"i", "n", "v", "o", "i", "c", "e">>,
    <<"b", "i", "l", "l">>,
    <<"g", "s", "t", "i", "n">>,
    <<"t", "a", "x", " ", "i", "n", "v", "o", "i", "c", "e">>>>
GstNoticeWords == <<<<"g", "s", "t">>,
    <<"n", "o", "t", "i", "c", "e">>,
    <<"d", "e", "p", "a", "r", "t", "m", "e", "n", "t">>,
    <<"c", "o", "m", "p", "l", "i", "a", "n", "c", "e">>>>

\* The tests of detect_document_type with the invoice words put first.
DetectIn_InvoiceFirst(text_lower) ==
    IF AnyKeyword(text_lower, InvoiceWords) THEN "invoice"
    ELSE IF AnyKeyword(text_lower, BankStatementWords) THEN "bank_statement"
    ELSE IF AnyKeyword(text_lower, GstNoticeWords) THEN "gst_notice"
    ELSE "other"

\* The tests of detect_document_type on the lower-cased text (lines 133-144).
DetectIn(text_lower) ==
    IF AnyKeyword(text_lower, BankStatementWords) THEN "bank_statement"
    ELSE IF AnyKeyword(text_lower, InvoiceWords) THEN "invoice"
    ELSE IF AnyKeyword(text_lower, GstNoticeWords) THEN "gst_notice"
    ELSE "other"

\* detect_document_type
DetectDocumentType(text) == DetectIn(StrLower(text))

\* What a method that gives one value back returns to its caller.
Value(x) == [kind |-> "value", value |-> x]

(***************************************************************************)
(* The texts the DocumentProcessor is called with                          *)
(***************************************************************************)

\* Lines of invoices, in the order they stand in a document.
InvoiceLines == <<
    <<"T", "A", "X", " ", "I", "N", "V", "O", "I", "C", "E">>,
    <<"I", "n", "v", "o", "i", "c", "e", " ", "N", "o", ":", " ", "I", "N", "V", "-", "2", "0", "2", "4", "-", "0", "0", "1">>,
    <<"I", "n", "v", "o", "i", "c", "e", ":", " ", "A", "1">>,
    <<"D", "a", "t", "e", ":", " ", "0", "1", "/", "0", "1", "/", "2", "0", "2", "4">>,
    <<"F", "r", "o", "m", ":", " ", "A", "B", "C", " ", "C", "o", "m", "p", "a", "n", "y">>,
    <<"G", "S", "T", "I", "N", ":", " ", "2", "9", "A", "B", "C", "D", "E", "1", "2", "3", "4", "F", "1", "Z", "5">>,
    <<"T", "o", "t", "a", "l", " ", "A", "m", "o", "u", "n", "t", ":", " ", "R", "s", ".", " ", "1", "1", ",", "8", "0", "0", ".", "0", "0">>,
    <<"T", "o", "t", "a", "l", ":", " ", "R", "s", ".", " ", "1", ",", "2", "5", "0", ".", "5", "0">>,
    <<"T", "o", "t", "a", "l", ":", " ", "1", ",", "2", "5", "0", ".", "5", "0">>,
    <<"T", "o", "t", "a", "l", ":", " ", "0">>,
    <<"T", "o", "t", "a", "l", ":", " ", ",">>,
    <<"C", "G", "S", "T", ":", " ", "R", "s", ".", " ", "1", "0", "0">>,
    <<"S", "G", "S", "T", ":", " ", "R", "s", ".", " ", "1", "0", "0">>,
    <<"C", "G", "S", "T", ":", " ", "1", "0", "0">>,
    <<"G", "S", "T", ":", " ", "1", "0", "0">> >>

\* Lines of bank statements.
StatementLines == <<
    <<"0", "2", "/", "0", "1", "/", "2", "0", "2", "4", " ", " ", "A", "T", "M", " ", "W", "i", "t", "h", "d", "r", "a", "w", "a", "l", " ", "D", "r", " ", " ", "2", "0", "0", "0", ".", "0", "0">>,
    <<"0", "2", "/", "0", "1", "/", "2", "0", "2", "4", " ", "A", "T", "M", " ", "W", "i", "t", "h", "d", "r", "a", "w", "a", "l", " ", "D", "r", " ", "2", "0", "0", "0">>,
    <<"0", "3", "/", "0", "1", "/", "2", "0", "2", "4", " ", " ", "S", "a", "l", "a", "r", "y", " ", "C", "r", "e", "d", "i", "t", " ", "C", "r", " ", " ", "5", "0", "0", "0", "0", ".", "0", "0">>,
    <<"0", "5", " ", "J", "a", "n", " ", "2", "0", "2", "4", " ", "P", "a", "y", "m", "e", "n", "t", " ", "t", "o", " ", "S", "w", "i", "g", "g", "y", " ", "R", "s", ".", " ", "1", ",", "2", "5", "0", ".", "5", "0">>,
    <<"2", "0", "2", "4", "-", "0", "1", "-", "0", "6", " ", "P", "e", "t", "r", "o", "l", " ", "P", "u", "m", "p", " ", "₹", " ", "5", "0", "0">>,
    <<"D", "a", "t", "e", " ", "D", "e", "s", "c", "r", "i", "p", "t", "i", "o", "n", " ", "A", "m", "o", "u", "n", "t">>,
    <<"B", "a", "l", "a", "n", "c", "e", " ", "0", ".", "0", "0", " ", "o", "n", " ", "0", "7", "/", "0", "1", "/", "2", "0", "2", "4">>,
    <<"C", "r", " ", "1", ".", "5">>,
    <<"H", "D", "F", "C", " ", "B", "A", "N", "K", " ", "A", "c", "c", "o", "u", "n", "t", " ", "N", "o", ":", " ", "1", "2", "3", "4", "5">>,
    <<"S", "t", "a", "t", "e", "m", "e", "n", "t", " ", "P", "e", "r", "i", "o", "d", ":", " ", "J", "a", "n", " ", "2", "0", "2", "4">>,
    <<"0", "2", "/", "0", "1", "/", "2", "0", "2", "4", " ", "C", "a", "s", "h", " ", "1", ",", "2", "5", "0">> >>

\* At most MaxLines lines of a document make a text.
MaxLines == 3

RECURSIVE JoinLines(_, _, _)
JoinLines(lines, sel, i) ==
    IF i > Len(lines) THEN <<>>
    ELSE IF i \in sel
    THEN lines[i] \o (IF \E j \in sel : j > i THEN <<"\n">> ELSE <<>>)
         \o JoinLines(lines, sel, i + 1)
    ELSE JoinLines(lines, sel, i + 1)

Selections(lines) == {sel \in SUBSET (1..Len(lines)) : Cardinality(sel) <= MaxLines}
TextsOf(lines) == {JoinLines(lines, sel, 1) : sel \in Selections(lines)}

\* Single lines: the examples of the tests and of the documentation.
ExampleTexts == {
    <<"I", "n", "v", "o", "i", "c", "e", " ", "D", "a", "t", "e", ":", " ", "1", "s", "t", " ", "J", "a", "n", " ", "2", "0", "2", "4">>,
    <<"2", "0", "2", "4", "-", "0", "1", "-", "0", "1">>,
    <<"o", "n", " ", "2", "0", "2", "4", "-", "0", "1", "-", "0", "6", " ", "a", "n", "d", " ", "0", "2", "/", "0", "1", "/", "2", "0", "2", "4">>,
    <<"P", "a", "y", "m", "e", "n", "t", " ", "t", "o", " ", "S", "w", "i", "g", "g", "y">>,
    <<"P", "e", "t", "r", "o", "l", " ", "P", "u", "m", "p", " ", "P", "a", "y", "m", "e", "n", "t">>,
    <<"E", "l", "e", "c", "t", "r", "i", "c", "i", "t", "y", " ", "B", "i", "l", "l">>,
    <<"A", "m", "a", "z", "o", "n", " ", "P", "u", "r", "c", "h", "a", "s", "e">>,
    <<"U", "n", "k", "n", "o", "w", "n", " ", "P", "a", "y", "m", "e", "n", "t">>,
    <<"G", "a", "s", " ", "C", "y", "l", "i", "n", "d", "e", "r">>,
    <<"1", ",", "2", "5", "0", ".", "5", "0">>,
    <<"C", "a", "s", "h", " ", "1", ",", "2", "5", "0">>,
    <<"C", "a", "s", "h", " ", "1", ",", "2", "5", "0", ".", "5">>,
    <<"P", "a", "i", "d", " ", "1", "2", ",", "3", "4", ",", "5", "6", "7", ".", "0", "0", " ", "o", "n", " ", "0", "2", "/", "0", "1", "/", "2", "0", "2", "4">>,
    <<"R", "s", ".", " ", ",", " ", "1", ",", "2", "5", "0", ".", "5", "0">>,
    <<"G", "S", "T", " ", "N", "o", "t", "i", "c", "e">>,
    <<"N", "o", "t", "i", "c", "e", " ", "o", "n", " ", "t", "h", "e", " ", "G", "S", "T", " ", "i", "n", "v", "o", "i", "c", "e">>,
    <<"B", "a", "n", "k", " ", "s", "t", "a", "t", "e", "m", "e", "n", "t", " ", "o", "f", " ", "t", "h", "e", " ", "i", "n", "v", "o", "i", "c", "e", " ", "a", "n", "d", " ", "t", "h", "e", " ", "G", "S", "T", " ", "n", "o", "t", "i", "c", "e">>,
    <<"H", "e", "l", "l", "o">>,
    <<"1", "/", "1", "/", "2", "4", " ", "5", "0">>,
    <<"1", "/", "1", "/", "2", "4", " ", "5", "0", "\n", "0", "3", "/", "0", "1", "/", "2", "0", "2", "4", " ", " ", "S", "a", "l", "a", "r", "y", " ", "C", "r", "e", "d", "i", "t", " ", "C", "r", " ", " ", "5", "0", "0", "0", "0", ".", "0", "0", "\n", "0", "2", "/", "0", "1", "/", "2", "0", "2", "4", " ", "A", "T", "M", " ", "W", "i", "t", "h", "d", "r", "a", "w", "a", "l", " ", "D", "r", " ", "2", "0", "0", "0">>,
    <<"B", "a", "n", "k", " ", "c", "h", "a", "r", "g", "e", "s", " ", "b", "i", "l", "l">>,
    <<"G", "S", "T", " ", "a", "c", "c", "o", "u", "n", "t">> }

\* At most MaxItemLines lines are in a list of invoice items.
MaxItemLines == 15

\* A number in decimal digits.
RECURSIVE DigitsOf(_)
DigitsOf(n) == IF n < 10 THEN <<DigitSeq[n + 1]>> ELSE DigitsOf(n \div 10) \o <<DigitSeq[(n % 10) + 1]>>

\* Line i of a list of items: an item with its price after the rupee sign,
\* or, at every gap-th line, a fee that has no digits before the sign.
ItemLine(i, gap) ==
    IF gap > 0 /\ i % gap = 0 THEN <<"F", "e", "e", " ", "₹", " ">> \o DigitsOf(i)
    ELSE <<"I", "t", "e", "m", " ">> \o DigitsOf(i) \o <<" ", Rupee, " ">> \o DigitsOf(i) \o <<"0">>

RECURSIVE ItemList(_, _, _)
ItemList(n, gap, i) ==
    IF i > n THEN <<>>
    ELSE ItemLine(i, gap) \o (IF i < n THEN <<"\n">> ELSE <<>>) \o ItemList(n, gap, i + 1)

ItemGaps == {0, 3, 5}
ItemTexts == {ItemList(n, gap, 1) : n \in 1..MaxItemLines, gap \in ItemGaps}

DocTexts ==
    TextsOf(InvoiceLines) \cup TextsOf(StatementLines) \cup ExampleTexts \cup ItemTexts

(***************************************************************************)
(* One call of a DocumentProcessor method on a text                        *)
(***************************************************************************)

DocInit ==
    /\ docText \in DocTexts
    /\ docOp = None
    /\ docRet = Pending
    /\ pytesseract = FALSE /\ cv2 = FALSE /\ np = FALSE
    /\ azure_doc_client = FALSE /\ easyocr_reader = FALSE
    /\ google_vision_client = FALSE
    /\ ocrCall = NoCall /\ ocrInvoked = <<>> /\ ocrResult = None
    /\ PipeIdle
    /\ WaIdle

CallParseTransactionLine ==
    /\ docOp = None
    /\ docOp' = "_parse_transaction_line"
    /\ docRet' = ParseTransactionLine(docText)
    /\ UNCHANGED <<docText, ocrVars, pipeVars, waVars>>

CallExtractAmounts ==
    /\ docOp = None
    /\ docOp' = "_extract_amounts"
    /\ docRet' = ExtractAmounts(docText)
    /\ UNCHANGED <<docText, ocrVars, pipeVars, waVars>>

CallParseInvoice ==
    /\ docOp = None
    /\ docOp' = "parse_invoice"
    /\ docRet' = ParseInvoice(docText)
    /\ UNCHANGED <<docText, ocrVars, pipeVars, waVars>>

CallParseBankStatement ==
    /\ docOp = None
    /\ docOp' = "parse_bank_statement"
    /\ docRet' = ParseBankStatement(docText)
    /\ UNCHANGED <<docText, ocrVars, pipeVars, waVars>>

CallExtractDate ==
    /\ docOp = None
    /\ docOp' = "_extract_date"
    /\ docRet' = Value(ExtractDate(docText))
    /\ UNCHANGED <<docText, ocrVars, pipeVars, waVars>>

CallExtractAmountFromLine ==
    /\ docOp = None
    /\ docOp' = "_extract_amount_from_line"
    /\ docRet' = Value(ExtractAmountFromLine(docText))
    /\ UNCHANGED <<docText, ocrVars, pipeVars, waVars>>

CallAutoCategorizeTransaction ==
    /\ docOp = None
    /\ docOp' = "_auto_categorize_transaction"
    /\ docRet' = Value(AutoCategorizeTransaction(docText))
    /\ UNCHANGED <<docText, ocrVars, pipeVars, waVars>>

CallExtractLineItems ==
    /\ docOp = None
    /\ docOp' = "_extract_line_items"
    /\ docRet' = Value(ExtractLineItems(docText))
    /\ UNCHANGED <<docText, ocrVars, pipeVars, waVars>>

CallDetectDocumentType ==
    /\ docOp = None
    /\ docOp' = "detect_document_type"
    /\ docRet' = Value(DetectDocumentType(docText))
    /\ UNCHANGED <<docText, ocrVars, pipeVars, waVars>>

DocNext ==
    \/ CallParseTransactionLine
    \/ CallExtractAmounts
    \/ CallParseInvoice
    \/ CallParseBankStatement
    \/ CallExtractDate
    \/ CallExtractAmountFromLine
    \/ CallAutoCategorizeTransaction
    \/ CallExtractLineItems
    \/ CallDetectDocumentType

DocSpec == DocInit /\ [][DocNext]_vars

(***************************************************************************)
(* FileHandler (utils/file_handler.py) and the upload endpoint             *)
(* process_document (api/v1/document.py)                                   *)
(***************************************************************************)

\* settings.max_file_size and settings.allowed_file_types
MaxFileSize == 10 * 1024 * 1024
AllowedTypes == {"image/jpeg", "image/png", "application/pdf"}

\* The uploads a client can send: content length, declared content type
\* and the extension of the file name.
UploadSizes == {MaxFileSize - 1, MaxFileSize, MaxFileSize + 1}
ContentTypes == {"application/pdf", "image/jpeg", "text/plain"}
Extensions == {".pdf", ".PDF", ".jpg"}
Uploads == [size : UploadSizes, content_type : ContentTypes, ext : Extensions]
RequestedTypes == {"auto", "bank_statement", "invoice", "gst_notice"}

RaisedWith(exc, msg) == [kind |-> "raised", exc |-> exc, msg |-> msg]

\* _validate_file with the content type tested before the size.
ValidateFile_TypeFirst(upload_file) ==
    IF upload_file.content_type \notin AllowedTypes
    THEN RaisedWith("ValueError", "File type not allowed")
    ELSE IF upload_file.size > MaxFileSize
    THEN RaisedWith("ValueError", "File too large")
    ELSE NoneRet

\* _validate_file
ValidateFile(upload_file) ==
    IF upload_file.size > MaxFileSize
    THEN RaisedWith("ValueError", "File too large")
    ELSE IF upload_file.content_type \notin AllowedTypes
    THEN RaisedWith("ValueError", "File type not allowed")
    ELSE NoneRet

\* A path in temp_uploads: the unique stem and what follows it.
Path(stem, ext) == [stem |-> stem, ext |-> ext]

\* save_upload_file: what it returns or raises, and the files it wrote.
SaveUploadFile(upload_file) ==
    LET valid == ValidateFile(upload_file)
        file_path == Path("anonymous_uuid", upload_file.ext)
    IN IF valid.kind = "raised" THEN [ret |-> valid, written |-> {}]
       ELSE [ret |-> [kind |-> "file_info", file_path |-> file_path,
                      file_size |-> upload_file.size],
             written |-> {file_path}]

\* convert_to_image: a path that ends in .pdf, in either case, is
\* converted; the image path replaces the text ".pdf", which a ".PDF" path
\* does not contain, so that the page is then saved under the same path.
\* pages tells whether the conversion gave a page; a failed conversion is
\* caught and gives the original path back.
ConvertToImage(file_path, pages) ==
    IF file_path.ext \in {".pdf", ".PDF"} /\ pages
    THEN LET image_path == IF file_path.ext = ".pdf"
                           THEN Path(file_path.stem, "_page1.jpg")
                           ELSE file_path
         IN [ret |-> image_path, written |-> {image_path}]
    ELSE [ret |-> file_path, written |-> {}]

\* HTTPException(status_code=400, detail=f"Upload failed: {str(e)}")
HTTPException(status_code, e) ==
    [status_code |-> status_code, detail |-> <<"Upload failed: ", e.msg>>]

\* The locals of process_document_background when the task is added.
NewJob(file_info, document_type) ==
    [pc |-> "convert", file_info |-> file_info, document_type |-> document_type,
     file_path |-> [kind |-> "unbound"], extracted_text |-> <<>>,
     processed_data |-> NoneRet, enhanced_data |-> NoneRet,
     ai_replies |-> <<>>, error |-> None]

\* process_document: the upload is saved, the background task is added and
\* the answer says "processing"; an exception of the save is answered with
\* HTTP 400.
ProcessDocument ==
    /\ request = NoRequest
    /\ \E upload_file \in Uploads, document_type \in RequestedTypes :
         LET saved == SaveUploadFile(upload_file)
         IN /\ request' = [file |-> upload_file, document_type |-> document_type]
            /\ files' = files \cup saved.written
            /\ IF saved.ret.kind = "raised"
               THEN /\ response' = HTTPException(400, saved.ret)
                    /\ job' = job
               ELSE /\ response' = [status_code |-> 200, status |-> "processing"]
                    /\ job' = NewJob(saved.ret, document_type)
    /\ UNCHANGED <<reports, removed, ocrVars, docVars, waVars>>

(***************************************************************************)
(* AIService.categorize_transaction (services/ai_service.py) and           *)
(* enhance_bank_statement_with_ai (api/v1/document.py)                     *)
(***************************************************************************)

\* A Python dict with the annotation keys: keys holds the keys present.
AnnotationKeys == {"category", "transaction_type", "confidence", "tags",
                   "is_business_expense", "gst_applicable", "suggested_gst_rate"}
Dict(keys, members) == [type |-> "dict", keys |-> keys, members |-> members]
List(items) == [type |-> "list", items |-> items]

\* The fallback annotation of categorize_transaction; confidence in hundredths.
FallbackCategory ==
    Dict(AnnotationKeys,
         [category |-> "Miscellaneous", transaction_type |-> "expense",
          confidence |-> 30, tags |-> <<"uncategorized">>,
          is_business_expense |-> FALSE, gst_applicable |-> FALSE,
          suggested_gst_rate |-> 0])

\* An annotation the model answers with.
TaxiCategory ==
    Dict(AnnotationKeys,
         [category |-> "Travel - Taxi", transaction_type |-> "expense",
          confidence |-> 90, tags |-> <<"travel">>,
          is_business_expense |-> TRUE, gst_applicable |-> TRUE,
          suggested_gst_rate |-> 5])

\* What the chat completion can do: raise, or answer with a text.  The
\* text is given with what json.loads makes of it: nothing (a
\* JSONDecodeError), or the decoded value.
NotJson == [decodes |-> FALSE]
Json(value) == [decodes |-> TRUE, value |-> value]
AIReplies ==
    {[kind |-> "raises"],
     [kind |-> "content", text |-> "Travel - Taxi", json |-> NotJson],
     [kind |-> "content", text |-> "{\"category\": \"Travel - Taxi\", ...}",
      json |-> Json(TaxiCategory)],
     [kind |-> "content", text |-> "{}", json |-> Json(Dict({}, FallbackCategory.members))],
     [kind |-> "content", text |-> "[]", json |-> Json(List(<<>>))]}

\* _call_openai
CallOpenAI(reply) ==
    IF reply.kind = "raises" THEN RaisedWith("APIError", "OpenAI API error")
    ELSE Value(reply)

\* json.loads
JsonLoads(content) ==
    IF content.json.decodes THEN Value(content.json.value)
    ELSE RaisedWith("JSONDecodeError", "Expecting value")

\* categorize_transaction falling back for every reply that is not a dict.
CategorizeTransaction_DictOnly(reply) ==
    LET reply_text == CallOpenAI(reply)
    IN IF reply_text.kind = "raised" THEN FallbackCategory
       ELSE LET result == JsonLoads(reply_text.value)
            IN IF result.kind = "raised" THEN FallbackCategory
               ELSE IF result.value.type # "dict" THEN FallbackCategory
               ELSE result.value

\* categorize_transaction: the decoded reply, or the fallback annotation
\* when the call or the decoding raised.
CategorizeTransaction(reply) ==
    LET reply_text == CallOpenAI(reply)
    IN IF reply_text.kind = "raised" THEN FallbackCategory
       ELSE LET result == JsonLoads(reply_text.value)
            IN IF result.kind = "raised" THEN FallbackCategory
               ELSE result.value

\* dict.get
Get(d, key, default) == IF key \in d.keys THEN d.members[key] ELSE default

\* if transaction.amount: the amount is neither None nor zero.
Truthy(amount) == amount # None /\ amount[1] # 0

\* The transactions enhance_bank_statement_with_ai asks the model about.
Categorized(transactions) == SelectSeq(transactions, LAMBDA t : Truthy(t.amount))

\* One enhanced transaction: the transaction with what .get reads from the
\* annotation.  A flag that is missing reads as None, which counts as false
\* where ai_summary tests it.
EnhancedTransaction(transaction, ai_category) ==
    [transaction |-> transaction,
     ai_category |-> Get(ai_category, "category", None),
     ai_confidence |-> Get(ai_category, "confidence", None),
     is_business_expense |-> Get(ai_category, "is_business_expense", FALSE),
     gst_applicable |-> Get(ai_category, "gst_applicable", FALSE),
     suggested_gst_rate |-> Get(ai_category, "suggested_gst_rate", None),
     tags |-> Get(ai_category, "tags", <<>>)]

AmountsWhere(enhanced, flag) ==
    [i \in 1..Len(SelectSeq(enhanced, LAMBDA t : t[flag])) |->
        SelectSeq(enhanced, LAMBDA t : t[flag])[i].transaction.amount]

\* enhance_bank_statement_with_ai: replies[i] is what the model does on the
\* i-th call.  An annotation that is not a dict has no .get.
EnhanceBankStatementWithAI(statement_data, replies) ==
    LET asked == Categorized(statement_data.transactions)
        annotations == [i \in 1..Len(asked) |-> CategorizeTransaction(replies[i])]
    IN IF \E i \in 1..Len(asked) : annotations[i].type # "dict"
       THEN RaisedWith("AttributeError", "object has no attribute 'get'")
       ELSE LET enhanced == [i \in 1..Len(asked) |->
                                EnhancedTransaction(asked[i], annotations[i])]
            IN [kind |-> "enhanced",
                enhanced_transactions |-> enhanced,
                ai_summary |->
                  [total_business_expenses |->
                     SumDec(AmountsWhere(enhanced, "is_business_expense")),
                   gst_applicable_amount |->
                     SumDec(AmountsWhere(enhanced, "gst_applicable"))]]

(***************************************************************************)
(* process_document_background (api/v1/document.py), one action for each   *)
(* stretch of the coroutine between two of its awaits                      *)
(***************************************************************************)

\* The texts the OCR step can give: a statement with two transactions, a
\* statement without any, an invoice, an invoice whose total has no
\* digits, a text of no known type and the empty text.
StatementText ==
    <<"B", "a", "n", "k", " ", "s", "t", "a", "t", "e", "m", "e", "n", "t", "\n", "0", "2", "/", "0", "1", "/", "2", "0", "2", "4", " ", "A", "T", "M", " ", "D", "r", " ", "2", "0", "0", "0", ".", "0", "0", "\n", "0", "3", "/", "0", "1", "/", "2", "0", "2", "4", " ", "S", "a", "l", "a", "r", "y", " ", "C", "r", " ", "5", "0", "0", ".", "0", "0">>
EmptyStatementText ==
    <<"S", "t", "a", "t", "e", "m", "e", "n", "t", " ", "P", "e", "r", "i", "o", "d", ":", " ", "J", "a", "n", " ", "2", "0", "2", "4">>
InvoiceText ==
    <<"T", "A", "X", " ", "I", "N", "V", "O", "I", "C", "E", "\n", "T", "o", "t", "a", "l", ":", " ", "R", "s", ".", " ", "1", ",", "2", "5", "0", ".", "5", "0", "\n", "G", "S", "T", ":", " ", "2", "2", "5", ".", "0", "0">>
BrokenInvoiceText ==
    <<"T", "a", "x", " ", "I", "n", "v", "o", "i", "c", "e", "\n", "T", "o", "t", "a", "l", ":", " ", ",">>
OtherText ==
    <<"H", "e", "l", "l", "o">>
OcrTexts == {StatementText, EmptyStatementText, InvoiceText, BrokenInvoiceText,
             OtherText, <<>>}

\* Lines 66-79: the services are built and the upload is converted.
JobConvert ==
    /\ job.pc = "convert"
    /\ \E pages \in BOOLEAN :
         LET converted == ConvertToImage(job.file_info.file_path, pages)
         IN /\ job' = [job EXCEPT !.pc = "ocr", !.file_path = converted.ret]
            /\ files' = files \cup converted.written
    /\ UNCHANGED <<request, response, reports, removed, ocrVars, docVars, waVars>>

\* Line 82: extract_text_from_image gives an OCRResult and never raises.
JobOcr ==
    /\ job.pc = "ocr"
    /\ \E text \in OcrTexts :
         job' = [job EXCEPT !.pc = "process", !.extracted_text = text]
    /\ UNCHANGED <<request, response, files, reports, removed, ocrVars, docVars, waVars>>

\* What detect_document_type, parse_bank_statement and parse_invoice give
\* for each text of the OCR step, worked out once.
DetectedType == [text \in OcrTexts |-> DetectDocumentType(text)]
ParsedStatement == [text \in OcrTexts |-> ParseBankStatement(text)]
ParsedInvoice == [text \in OcrTexts |-> ParseInvoice(text)]

\* Lines 85-92: the type is detected when "auto", and the text is parsed.
ProcessedData(document_type, text) ==
    IF document_type = "bank_statement" THEN ParsedStatement[text]
    ELSE IF document_type = "invoice" THEN ParsedInvoice[text]
    ELSE NoneRet

\* The locals after lines 85-92: an exception of the parser leaves for
\* the handler.
Processed(j, document_type, processed_data) ==
    IF processed_data.kind = "raised"
    THEN [j EXCEPT !.pc = "except", !.document_type = document_type,
                   !.error = processed_data.exc]
    ELSE [j EXCEPT !.pc = "enhance", !.document_type = document_type,
                   !.processed_data = processed_data]

ProcessAs(j, document_type) ==
    Processed(j, document_type, ProcessedData(document_type, j.extracted_text))

JobProcess ==
    /\ job.pc = "process"
    /\ job' = ProcessAs(job, IF job.document_type = "auto"
                             THEN DetectedType[job.extracted_text]
                             ELSE job.document_type)
    /\ UNCHANGED <<request, response, files, reports, removed, ocrVars, docVars, waVars>>

\* Lines 95-97: a parsed bank statement is enhanced.
Enhanced(j, replies, enhanced_data) ==
    IF enhanced_data.kind = "raised"
    THEN [j EXCEPT !.pc = "except", !.ai_replies = replies, !.error = enhanced_data.exc]
    ELSE [j EXCEPT !.pc = "report", !.ai_replies = replies,
                   !.enhanced_data = enhanced_data]

JobEnhance ==
    /\ job.pc = "enhance"
    /\ IF job.processed_data.kind # "none" /\ job.document_type = "bank_statement"
       THEN \E replies \in [1..Len(Categorized(job.processed_data.transactions)) -> AIReplies] :
              job' = Enhanced(job, replies,
                              EnhanceBankStatementWithAI(job.processed_data, replies))
       ELSE job' = [job EXCEPT !.pc = "report"]
    /\ UNCHANGED <<request, response, files, reports, removed, ocrVars, docVars, waVars>>

\* The payload of lines 99-108.
SuccessResult(j) ==
    [success |-> TRUE, error |-> None,
     data |-> [ocr_result |-> j.extracted_text, document_type |-> j.document_type,
               processed_data |-> j.processed_data, enhanced_data |-> j.enhanced_data,
               file_info |-> j.file_info]]

\* The payload of lines 114-117: data is still the empty dict.
FailureResult(j) ==
    [success |-> FALSE, error |-> j.error, data |-> [kind |-> "empty"]]

\* Lines 99-111: the result is handed to send_results_to_backend, which
\* catches what its POST raises.
JobReport ==
    /\ job.pc = "report"
    /\ reports' = Append(reports, SuccessResult(job))
    /\ job' = [job EXCEPT !.pc = "finally"]
    /\ UNCHANGED <<request, response, files, removed, ocrVars, docVars, waVars>>

\* The handler of lines 113-120 without its call of send_results_to_backend.
JobExcept_Silent ==
    /\ job.pc = "except"
    /\ job' = [job EXCEPT !.pc = "finally"]
    /\ UNCHANGED <<request, response, files, reports, removed, ocrVars, docVars, waVars>>

\* Lines 113-120: the error is handed to send_results_to_backend.
JobExcept ==
    /\ job.pc = "except"
    /\ reports' = Append(reports, FailureResult(job))
    /\ job' = [job EXCEPT !.pc = "finally"]
    /\ UNCHANGED <<request, response, files, removed, ocrVars, docVars, waVars>>

\* The paths the finally block hands to cleanup_temp_file.
CleanupPaths(j) ==
    IF j.file_path # j.file_info.file_path
    THEN <<j.file_info.file_path, j.file_path>>
    ELSE <<j.file_info.file_path>>

\* Lines 122-126: the finally block.
JobCleanup ==
    /\ job.pc = "finally"
    /\ removed' = removed \o CleanupPaths(job)
    /\ files' = files \ {CleanupPaths(job)[i] : i \in 1..Len(CleanupPaths(job))}
    /\ job' = [job EXCEPT !.pc = "done"]
    /\ UNCHANGED <<request, response, reports, ocrVars, docVars, waVars>>

JobNext ==
    \/ JobConvert
    \/ JobOcr
    \/ JobProcess
    \/ JobEnhance
    \/ JobReport
    \/ JobExcept
    \/ JobCleanup

PipeInit ==
    /\ PipeIdle
    /\ WaIdle
    /\ pytesseract = FALSE /\ cv2 = FALSE /\ np = FALSE
    /\ azure_doc_client = FALSE /\ easyocr_reader = FALSE
    /\ google_vision_client = FALSE
    /\ ocrCall = NoCall /\ ocrInvoked = <<>> /\ ocrResult = None
    /\ docText = <<>> /\ docOp = None /\ docRet = Pending

PipeNext ==
    \/ ProcessDocument
    \/ JobConvert
    \/ JobOcr
    \/ JobProcess
    \/ JobEnhance
    \/ JobReport
    \/ JobExcept
    \/ JobCleanup

PipeSpec == PipeInit /\ [][PipeNext]_vars

\* Starlette runs an added background task after the response is sent and
\* the event loop resumes a coroutine whose await has finished, so a step
\* of the job that stays possible is taken.
PipeLive == PipeSpec /\ WF_vars(JobNext)

(***************************************************************************)
(* WhatsAppAIService.process_incoming_message (services/whatsapp_ai.py)    *)
(* and the webhook that calls it (api/v1/whatsapp.py)                      *)
(***************************************************************************)

\* The bodies, senders and media URLs Twilio posts to the webhook.
WaBodies == {
    <<"n", "i", "l">>,
    <<"N", "I", "L">>,
    <<" ", "N", "i", "l", " ", "F", "i", "l", "i", "n", "g", " ">>,
    <<"n", "i", "l", " ", "f", "i", "l", "i", "n", "g">>,
    <<"s", "t", "a", "t", "u", "s">>,
    <<"G", "S", "T", " ", "S", "t", "a", "t", "u", "s", "\n">>,
    <<"h", "e", "l", "p">>,
    <<"M", "E", "N", "U">>,
    <<"h", "e", "l", "l", "o">>,
    <<>>,
    <<"n", "i", "l", " ", "f", "i", "l", "i", "n", "g", " ", "n", "o", "w">>,
    <<"n", "i", "l", " ", " ", "f", "i", "l", "i", "n", "g">>,
    <<" ", " ", " ", "h", "e", "l", "l", "o", " ", " ", " ">>,
    <<"0", "1", "2", "3", "4", "5", "6", "7", "8", "9">>,
    <<"0", "1", "2", "3", "4", "5", "6", "7", "8", "9", "0">>,
    <<"C", "a", "n", " ", "I", " ", "c", "l", "a", "i", "m", " ", "h", "o", "m", "e", " ", "o", "f", "f", "i", "c", "e", " ", "e", "x", "p", "e", "n", "s", "e", "s", "?">>,
    <<"h", "e", "l", "p", " ", "m", "e">>,
    <<"s", "t", "a", "t", "u", "s", " ", "o", "f", " ", "m", "y", " ", "g", "s", "t", " ", "r", "e", "t", "u", "r", "n">>}
WaFroms == {
    <<"w", "h", "a", "t", "s", "a", "p", "p", ":", "+", "9", "1", "9", "8", "0", "0", "0", "0", "0", "0", "0", "1">>,
    <<"+", "9", "1", "9", "8", "0", "0", "0", "0", "0", "0", "0", "2">>}
WaMediaUrls == {"", "https://api.twilio.com/media/ME1"}

\* What answer_gst_query can do for a question: answer, with or without
\* follow-up questions, or raise.
WaAIOutcomes == {[kind |-> "answer", follow_up_questions |-> 0],
                 [kind |-> "answer", follow_up_questions |-> 3],
                 [kind |-> "raises"]}

\* str.replace(old, '')
RECURSIVE RemoveAll(_, _)
RemoveAll(s, old) ==
    IF Len(s) < Len(old) \/ old = <<>> THEN s
    ELSE IF SubSeq(s, 1, Len(old)) = old
    THEN RemoveAll(SubSeq(s, Len(old) + 1, Len(s)), old)
    ELSE <<Head(s)>> \o RemoveAll(Tail(s), old)

\* The WhatsAppMessage the webhook builds (lines 22-27).
WhatsAppMessage(From, Body, MediaUrl0) ==
    [kind |-> "message",
     from_number |-> RemoveAll(From, <<"w", "h", "a", "t", "s", "a", "p", "p", ":">>),
     message_body |-> Body,
     media_url |-> IF MediaUrl0 # "" THEN MediaUrl0 ELSE None]

NoData == [kind |-> "none"]
WhatsAppResponse(reply_message, action_type, requires_processing, processing_data) ==
    [kind |-> "response", reply_message |-> reply_message, action_type |-> action_type,
     requires_processing |-> requires_processing, processing_data |-> processing_data]

\* processing_data: the dict a response that requires processing carries.
ProcessingData(user_phone, action, media_url) ==
    [kind |-> "dict", user_phone |-> user_phone, action |-> action, media_url |-> media_url]

\* The command lists of process_incoming_message.
NilCommands == {<<"n", "i", "l">>, <<"n", "i", "l", " ", "f", "i", "l", "i", "n", "g">>}
StatusCommands == {<<"s", "t", "a", "t", "u", "s">>, <<"g", "s", "t", " ", "s", "t", "a", "t", "u", "s">>}
HelpCommands == {<<"h", "e", "l", "p">>, <<"m", "e", "n", "u">>}

\* The reply to a question: the answer and at most two follow-up questions,
\* or the apology when the AI service raised.
AIQueryResponse(ai) ==
    IF ai.kind = "raises"
    THEN WhatsAppResponse("I'm having trouble processing your question", "error",
                          FALSE, NoData)
    ELSE WhatsAppResponse(<<"answer", IF ai.follow_up_questions > 2 THEN 2
                                      ELSE ai.follow_up_questions>>,
                          "ai_query", FALSE, NoData)

\* media_url is neither None nor empty
HasMedia(message) == message.media_url # None /\ message.media_url # ""

\* process_incoming_message with the media test before the commands.
ProcessIncomingMessage_MediaFirst(message, ai) ==
    LET message_lower == Strip(StrLower(message.message_body))
    IN IF HasMedia(message)
       THEN WhatsAppResponse("Document received", "document_upload", TRUE,
                ProcessingData(message.from_number, "document_processing",
                               message.media_url))
       ELSE IF message_lower \in NilCommands
       THEN WhatsAppResponse("NIL Filing request received", "nil_filing", TRUE,
                ProcessingData(message.from_number, "nil_filing", None))
       ELSE IF message_lower \in StatusCommands
       THEN WhatsAppResponse("Checking your GST filing status", "status_check", TRUE,
                ProcessingData(message.from_number, "status_check", None))
       ELSE IF message_lower \in HelpCommands
       THEN WhatsAppResponse("help message", "help", FALSE, NoData)
       ELSE IF Len(message.message_body) > 10
       THEN AIQueryResponse(ai)
       ELSE WhatsAppResponse("Hi! I'm your MyCG AI assistant", "default", FALSE, NoData)

\* process_incoming_message (lines 28-101)
ProcessIncomingMessage(message, ai) ==
    LET message_lower == Strip(StrLower(message.message_body))
    IN IF message_lower \in NilCommands
       THEN WhatsAppResponse("NIL Filing request received", "nil_filing", TRUE,
                ProcessingData(message.from_number, "nil_filing", None))
       ELSE IF message_lower \in StatusCommands
       THEN WhatsAppResponse("Checking your GST filing status", "status_check", TRUE,
                ProcessingData(message.from_number, "status_check", None))
       ELSE IF message_lower \in HelpCommands
       THEN WhatsAppResponse("help message", "help", FALSE, NoData)
       ELSE IF HasMedia(message)
       THEN WhatsAppResponse("Document received", "document_upload", TRUE,
                ProcessingData(message.from_number, "document_processing",
                               message.media_url))
       ELSE IF Len(message.message_body) > 10
       THEN AIQueryResponse(ai)
       ELSE WhatsAppResponse("Hi! I'm your MyCG AI assistant", "default", FALSE, NoData)

\* The handler handle_whatsapp_processing runs for an action (lines 59-71).
HandlerOf(action) ==
    IF action = "document_processing" THEN "process_whatsapp_document"
    ELSE IF action = "nil_filing" THEN "forward_nil_filing_request"
    ELSE IF action = "status_check" THEN "handle_status_check"
    ELSE "no handler"

WaInit ==
    /\ WaIdle
    /\ PipeIdle
    /\ pytesseract = FALSE /\ cv2 = FALSE /\ np = FALSE
    /\ azure_doc_client = FALSE /\ easyocr_reader = FALSE
    /\ google_vision_client = FALSE
    /\ ocrCall = NoCall /\ ocrInvoked = <<>> /\ ocrResult = None
    /\ docText = <<>> /\ docOp = None /\ docRet = Pending

\* whatsapp_webhook: the message is built and processed, the reply is sent
\* and the background task is added when the response asks for processing.
WhatsappWebhook ==
    /\ waMessage = NoMessage
    /\ \E From \in WaFroms, Body \in WaBodies, MediaUrl0 \in WaMediaUrls, ai \in WaAIOutcomes :
         LET message == WhatsAppMessage(From, Body, MediaUrl0)
             wa_response == ProcessIncomingMessage(message, ai)
         IN /\ waMessage' = message
            /\ waResponse' = wa_response
            /\ waTask' = IF wa_response.requires_processing
                         THEN wa_response.processing_data ELSE NoTask
    /\ UNCHANGED <<waHandled, ocrVars, docVars, pipeVars>>

\* handle_whatsapp_processing, run as the background task.
HandleWhatsappProcessing ==
    /\ waTask # NoTask
    /\ waHandled = None
    /\ waHandled' = HandlerOf(waTask.action)
    /\ UNCHANGED <<waMessage, waResponse, waTask, ocrVars, docVars, pipeVars>>

WaNext ==
    \/ WhatsappWebhook
    \/ HandleWhatsappProcessing

WaSpec == WaInit /\ [][WaNext]_vars

(***************************************************************************)
(* Properties of OCRService.extract_text_from_image                        *)
(***************************************************************************)

Called == ocrCall # NoCall
Available(e) == InSeq(e, AvailableMethods)
SomeAvailable == Len(AvailableMethods) > 0

\* The priority order the selector documents.
PriorityOrder == <<"azure", "google_vision", "easyocr", "tesseract">>

RECURSIVE FirstSuchThat(_, _, _)
FirstSuchThat(order, i, S) ==
    IF i > Len(order) THEN None
    ELSE IF order[i] \in S THEN order[i]
    ELSE FirstSuchThat(order, i + 1, S)

\* The engine the call settled on before invoking anything.
Selected == SelectedMethod(ocrCall.method, ocrCall.image)
EngineRaises(e) == ocrCall.outcome[e] = "raise"

\* C1: when the selected engine raises and another engine is available, the
\* result is that of the next available engine in priority order that
\* returns (its text, its confidence, method_used naming it); the failure
\* of the selected engine alone never is the final result.
C1_FallbackAfterSelectedEngineRaises ==
    (Called /\ SomeAvailable /\ EngineRaises(Selected)
        /\ \E e \in Engines \ {Selected} : Available(e))
    => LET others == {e \in Engines \ {Selected} : Available(e) /\ ~EngineRaises(e)}
           nxt == FirstSuchThat(PriorityOrder, 1, others)
       IN IF nxt = None
          THEN ocrResult.confidence = 0
          ELSE ocrResult = OCRResult(EngineText(nxt), EngineConfidence(nxt), nxt)

\* C2: extract_text_from_image never raises to its caller: with no engine
\* available it returns confidence 0, method_used "none" and the
\* unavailability text; when every invoked engine failed it returns
\* confidence 0 and a text carrying the error message.
C2_NeverRaises ==
    Called =>
      /\ ~ocrResult.raised
      /\ ~SomeAvailable => ocrResult = OCRResult(UnavailableText, 0, "none")
      /\ (SomeAvailable /\ \A i \in 1..Len(ocrInvoked) : EngineRaises(ocrInvoked[i]))
         => /\ Len(ocrInvoked) > 0
            /\ ocrResult.confidence = 0
            /\ ocrResult.extracted_text =
                 "OCR extraction failed: " \o EngineError(ocrInvoked[Len(ocrInvoked)])

C2_Witness_AllInvokedFailed ==
    /\ Called /\ SomeAvailable /\ Len(ocrInvoked) > 0
    /\ \A i \in 1..Len(ocrInvoked) : EngineRaises(ocrInvoked[i])
    /\ ocrResult.confidence = 0

\* C3: an explicit method that is not available is replaced by the first
\* available engine in the order azure > google_vision > easyocr > tesseract.
C3_UnavailableExplicitUsesPriorityOrder ==
    (Called /\ SomeAvailable /\ ocrCall.method \in Engines
        /\ ~Available(ocrCall.method))
    => /\ Len(ocrInvoked) > 0
       /\ ocrInvoked[1] = FirstSuchThat(PriorityOrder, 1,
                                        {e \in Engines : Available(e)})

\* C4: with method "auto" the selected engine is azure whenever azure is
\* available, and google_vision whenever azure is not available and
\* google_vision is, whatever else is available and whatever the image.
C4_AutoPrefersAzureThenGoogleVision ==
    (Called /\ ocrCall.method = "auto") =>
      /\ Available("azure")
         => ocrInvoked = <<"azure">> /\ ocrResult.method_used = "azure"
      /\ (~Available("azure") /\ Available("google_vision"))
         => /\ ocrInvoked = <<"google_vision">>
            /\ ocrResult.method_used = "google_vision"

C4_Witness_AutoGoogleVision ==
    /\ Called /\ ocrCall.method = "auto"
    /\ ~Available("azure") /\ Available("google_vision")
    /\ Available("easyocr") /\ Available("tesseract")
    /\ ocrCall.image.kind = "ok" /\ ocrCall.image.variance = 600
    /\ ocrInvoked = <<"google_vision">>

\* C5: with method "auto", azure and google_vision unavailable and both
\* easyocr and tesseract available, easyocr is selected exactly when the
\* Laplacian variance of the image is strictly greater than 500, and
\* tesseract otherwise.
C5_AutoVarianceThreshold ==
    (Called /\ ocrCall.method = "auto"
        /\ ~Available("azure") /\ ~Available("google_vision")
        /\ Available("easyocr") /\ Available("tesseract"))
    => /\ Len(ocrInvoked) = 1
       /\ ocrInvoked[1] = "easyocr"
            <=> (ocrCall.image.kind = "ok" /\ ocrCall.image.variance > 500)
       /\ ocrInvoked[1] # "easyocr" => ocrInvoked[1] = "tesseract"
       /\ ocrResult.method_used = ocrInvoked[1]

C5_Witness_VarianceAtThreshold ==
    /\ Called /\ ocrCall.method = "auto"
    /\ ~Available("azure") /\ ~Available("google_vision")
    /\ Available("easyocr") /\ Available("tesseract")
    /\ ocrCall.image.kind = "ok" /\ ocrCall.image.variance = 500
    /\ ocrInvoked = <<"tesseract">>

(***************************************************************************)
(* Properties of DocumentProcessor                                         *)
(***************************************************************************)

\* An optional value that is present and equal to v.
Is(x, v) == x # None /\ x = v

\* The text has this line.
HasLine(line) == InSeq(line, Split(docText))

ATMLine == <<"0", "2", "/", "0", "1", "/", "2", "0", "2", "4", " ", " ", "A", "T", "M", " ", "W", "i", "t", "h", "d", "r", "a", "w", "a", "l", " ", "D", "r", " ", " ", "2", "0", "0", "0", ".", "0", "0">>
TotalAmountRsLine == <<"T", "o", "t", "a", "l", " ", "A", "m", "o", "u", "n", "t", ":", " ", "R", "s", ".", " ", "1", "1", ",", "8", "0", "0", ".", "0", "0">>
TotalRsLine == <<"T", "o", "t", "a", "l", ":", " ", "R", "s", ".", " ", "1", ",", "2", "5", "0", ".", "5", "0">>
TotalLines == {InvoiceLines[i] : i \in 7..11}
OnlyTotalLine(line) == HasLine(line) /\ \A l \in TotalLines \ {line} : ~HasLine(l)
InvoiceNoLine == <<"I", "n", "v", "o", "i", "c", "e", " ", "N", "o", ":", " ", "I", "N", "V", "-", "2", "0", "2", "4", "-", "0", "0", "1">>
CgstRsLine == <<"C", "G", "S", "T", ":", " ", "R", "s", ".", " ", "1", "0", "0">>
SgstRsLine == <<"S", "G", "S", "T", ":", " ", "R", "s", ".", " ", "1", "0", "0">>
TaxLines == {InvoiceLines[i] : i \in 12..15}

\* C6 as the spec states it: the line "02/01/2024  ATM Withdrawal Dr
\* 2000.00" parses to date "02/01/2024", description "ATM Withdrawal",
\* amount 2000.0, direction debit, category miscellaneous, confidence 0.8.
C6_ATMLineAsStated ==
    (docOp = "_parse_transaction_line" /\ docText = ATMLine)
    => docRet = TransactionData(<<"0", "2", "/", "0", "1", "/", "2", "0", "2", "4">>, <<"A", "T", "M", " ", "W", "i", "t", "h", "d", "r", "a", "w", "a", "l">>,
                                <<2000, 0>>, "debit", "miscellaneous", 80)

\* C6, amended: the same line parses to date "02/01/2024", description
\* "ATM Withdrawal Dr" (only the date and the amount are deleted), amount
\* 2000.0, direction debit, category miscellaneous, confidence 0.8.
C6_ATMLine ==
    (docOp = "_parse_transaction_line" /\ docText = ATMLine)
    => docRet = TransactionData(<<"0", "2", "/", "0", "1", "/", "2", "0", "2", "4">>, <<"A", "T", "M", " ", "W", "i", "t", "h", "d", "r", "a", "w", "a", "l", " ", "D", "r">>,
                                <<2000, 0>>, "debit", "miscellaneous", 80)

C6_Witness_ATMLineParsed ==
    /\ docOp = "_parse_transaction_line" /\ docText = ATMLine
    /\ docRet.kind = "transaction"

\* C7: for a text with the label line "Invoice No: INV-2024-001",
\* parse_invoice returns the complete identifier as invoice_number, also
\* under a "TAX INVOICE" heading.
C7_InvoiceNumberIsCompleteId ==
    (docOp = "parse_invoice" /\ docRet.kind = "invoice" /\ HasLine(InvoiceNoLine))
    => Is(docRet.invoice_number,
          <<"I", "N", "V", "-", "2", "0", "2", "4", "-", "0", "0", "1">>)

\* C8: a total label followed by an "Rs."-prefixed amount with thousands
\* separators gives that amount as the total: 11800.0 for "Total Amount:
\* Rs. 11,800.00" and 1250.50 for "Total: Rs. 1,250.50".
C8_RsPrefixedTotal ==
    (docOp = "_extract_amounts" /\ docRet.kind = "amounts") =>
      /\ OnlyTotalLine(TotalAmountRsLine) => Is(docRet.total, <<11800, 0>>)
      /\ OnlyTotalLine(TotalRsLine) => Is(docRet.total, <<12505, 1>>)

\* C9: the tax is the sum over all GST/CGST/SGST/IGST-labelled amounts: a
\* text with "CGST: Rs. 100" and "SGST: Rs. 100" and no other tax line has
\* tax 200.
C9_TaxIsSumOfAllLabelledAmounts ==
    (docOp = "_extract_amounts" /\ docRet.kind = "amounts"
        /\ HasLine(CgstRsLine) /\ HasLine(SgstRsLine)
        /\ \A l \in TaxLines \ {CgstRsLine, SgstRsLine} : ~HasLine(l))
    => Is(docRet.tax, <<200, 0>>)

InvoiceConfidences == {0, 25, 50, 75, 100}
Count(b) == IF b THEN 1 ELSE 0

C11_UnmatchedAmountIsNull ==
    (docOp = "parse_invoice" /\ docRet.kind = "invoice") =>
      /\ ~FirstMatch(TotalPatterns, 1, docText, TRUE).ok => docRet.total_amount = None
      /\ TaxCaptures(docText, 1) = <<>> => docRet.tax_amount = None

\* C12: malformed numeric text never leaves the parsers as an exception:
\* whatever the text, and so also when a captured amount string is not
\* parseable as a float, parse_invoice and parse_bank_statement return
\* normally.
C12_ParsersReturnNormally ==
    docOp \in {"parse_invoice", "parse_bank_statement"} => docRet.kind # "raised"

(***************************************************************************)
(* Properties of parse_bank_statement                                      *)
(***************************************************************************)

StatementReturned == docOp = "parse_bank_statement" /\ docRet.kind = "statement"

\* The amounts of the transactions of one direction, in order.
AmountsOf(transactions, direction) ==
    LET those == SelectSeq(transactions, LAMBDA t : t.transaction_type = direction)
    IN [i \in 1..Len(those) |-> those[i].amount]

\* C13: in the summary parse_bank_statement returns, total_debits is the sum
\* of the amounts of the debit transactions, total_credits the sum of those
\* of the credit transactions, net_amount is total_credits less
\* total_debits, and total_transactions is the length of the transactions
\* list.
C13_SummaryAggregates ==
    StatementReturned =>
      /\ docRet.summary.total_debits = SumDec(AmountsOf(docRet.transactions, "debit"))
      /\ docRet.summary.total_credits = SumDec(AmountsOf(docRet.transactions, "credit"))
      /\ AddDec(docRet.summary.net_amount, docRet.summary.total_debits)
           = docRet.summary.total_credits
      /\ docRet.summary.total_transactions = Len(docRet.transactions)

C13_Witness_DebitsAndCredits ==
    /\ StatementReturned
    /\ docRet.summary.total_debits # DecZero
    /\ docRet.summary.total_credits # DecZero
    /\ docRet.summary.net_amount # docRet.summary.total_credits
    /\ docRet.summary.total_transactions > 1

\* C14: parse_bank_statement raises no division error; its
\* parsing_confidence is the number of transactions whose amount is not null
\* divided by the number of transactions, and 0 when the transactions list
\* is empty (confidences are in hundredths).
C14_ParsingConfidenceIsValidShare ==
    docOp = "parse_bank_statement" =>
      /\ docRet.kind = "statement"
      /\ docRet.transactions = <<>> => docRet.parsing_confidence = 0
      /\ docRet.parsing_confidence * Len(docRet.transactions)
           = 100 * Cardinality({i \in 1..Len(docRet.transactions) :
                                  docRet.transactions[i].amount # None})

C14_Witness_NoTransactions ==
    /\ StatementReturned
    /\ \E i \in 1..Len(Split(docText)) : Len(Strip(Split(docText)[i])) >= MinLineLen
    /\ docRet.transactions = <<>>
    /\ docRet.parsing_confidence = 0

(***************************************************************************)
(* Properties of the line parser and of the extractors                     *)
(***************************************************************************)

NoDateMatch(line) ==
    \A p \in 1..Len(DatePatterns) : ~Search(DatePatterns[p], line, FALSE).ok
NoAmountMatch(line) ==
    \A p \in 1..Len(AmountPatterns) : ~Search(AmountPatterns[p], line, FALSE).ok

\* C15: _parse_transaction_line returns nothing for a line in which no date
\* pattern matches or no amount pattern matches, and every record it returns
\* has a date, an amount and the confidence 0.8 (80 hundredths), never 0.5.
C15_RecordsHaveDateAndAmount ==
    docOp = "_parse_transaction_line" =>
      /\ (NoDateMatch(docText) \/ NoAmountMatch(docText)) => docRet.kind = "none"
      /\ docRet.kind = "transaction" =>
           /\ docRet.date # None
           /\ docRet.amount # None
           /\ docRet.confidence = 80

C15_Witness_UndatedLineDiscarded ==
    /\ docOp = "_parse_transaction_line"
    /\ NoDateMatch(docText)
    /\ ~NoAmountMatch(docText)
    /\ docRet.kind = "none"

\* Amount strings with thousands separators, and the numbers they write.
SeparatedAmounts == <<
    [text |-> <<"1", ",", "2", "5", "0", ".", "5", "0">>, value |-> <<12505, 1>>],
    [text |-> <<"1", "1", ",", "8", "0", "0", ".", "0", "0">>, value |-> <<11800, 0>>],
    [text |-> <<"1", "2", ",", "3", "4", ",", "5", "6", "7", ".", "0", "0">>, value |-> <<1234567, 0>>],
    [text |-> <<"1", ",", "2", "5", "0">>, value |-> <<1250, 0>>],
    [text |-> <<"1", ",", "2", "5", "0", ".", "5">>, value |-> <<12505, 1>>] >>

\* The amount string stands in the line, with no digit, comma or dot next
\* to it.
Embedded(amount, line) ==
    \E i \in 1..Len(line) :
      /\ LitAt(amount, line, i, FALSE)
      /\ i > 1 => line[i - 1] \notin AmountChars \cup {"."}
      /\ i + Len(amount) <= Len(line) => line[i + Len(amount)] \notin AmountChars \cup {"."}

IsLine(text) == \A i \in 1..Len(text) : text[i] # "\n"

\* C16: for every amount string with thousands separators that stands in a
\* line, such as "1,250.50", _extract_amount_from_line returns the number
\* the string writes, its separators removed (1250.50).
C16_SeparatorsRemoved ==
    (docOp = "_extract_amount_from_line" /\ IsLine(docText)) =>
      \A k \in 1..Len(SeparatedAmounts) :
        Embedded(SeparatedAmounts[k].text, docText) =>
          Is(docRet.value, SeparatedAmounts[k].value)

\* Valid dates the texts hold, each with the date pattern it is written for.
ValidDates == <<
    [text |-> <<"0", "1", "/", "0", "1", "/", "2", "0", "2", "4">>, pattern |-> 1],
    [text |-> <<"0", "2", "/", "0", "1", "/", "2", "0", "2", "4">>, pattern |-> 1],
    [text |-> <<"0", "3", "/", "0", "1", "/", "2", "0", "2", "4">>, pattern |-> 1],
    [text |-> <<"0", "7", "/", "0", "1", "/", "2", "0", "2", "4">>, pattern |-> 1],
    [text |-> <<"2", "0", "2", "4", "-", "0", "1", "-", "0", "6">>, pattern |-> 3],
    [text |-> <<"2", "0", "2", "4", "-", "0", "1", "-", "0", "1">>, pattern |-> 3] >>

\* The date stands in the line with no digit or separator next to it.
EmbeddedDate(date, line) ==
    \E i \in 1..Len(line) :
      /\ LitAt(date, line, i, FALSE)
      /\ i > 1 => line[i - 1] \notin Digit \cup DateSep
      /\ i + Len(date) <= Len(line) => line[i + Len(date)] \notin Digit \cup DateSep

\* The dates test_extract_date asks for.
DateExamples == {
    <<"D", "a", "t", "e", ":", " ", "0", "1", "/", "0", "1", "/", "2", "0", "2", "4">>,
    <<"I", "n", "v", "o", "i", "c", "e", " ", "D", "a", "t", "e", ":", " ", "1", "s", "t", " ", "J", "a", "n", " ", "2", "0", "2", "4">>,
    <<"2", "0", "2", "4", "-", "0", "1", "-", "0", "1">> }

\* C17: for every valid DD/MM/YYYY or YYYY-MM-DD date that stands in a line,
\* _extract_date, trying its patterns in order with the first match winning,
\* returns exactly that date, and it returns a date for each of
\* "Date: 01/01/2024", "Invoice Date: 1st Jan 2024" and "2024-01-01".
C17_DateExtracted ==
    docOp = "_extract_date" =>
      /\ docText \in DateExamples => docRet.value # None
      /\ IsLine(docText) =>
           \A k \in 1..Len(ValidDates) :
             (/\ EmbeddedDate(ValidDates[k].text, docText)
              /\ \A q \in 1..(ValidDates[k].pattern - 1) :
                   ~Search(DatePatterns[q], docText, TRUE).ok)
             => Is(docRet.value, ValidDates[k].text)

(***************************************************************************)
(* Properties of detect_document_type                                      *)
(***************************************************************************)

\* The lower-cased text holds one of the words.
HasWord(words) == \E i \in 1..Len(words) : Contains(StrLower(docText), words[i])

DocumentTypes == {"bank_statement", "invoice", "gst_notice", "other"}

\* C18: detect_document_type returns one of bank_statement, invoice,
\* gst_notice and other: bank_statement if the lower-cased text holds a
\* bank-statement keyword, otherwise invoice if it holds an invoice keyword,
\* otherwise gst_notice if it holds a GST-notice keyword, otherwise other;
\* a text with keywords of several sets gets the type of the first of them.
C18_DetectByPriority ==
    docOp = "detect_document_type" =>
      /\ docRet.value \in DocumentTypes
      /\ docRet.value = "bank_statement" <=> HasWord(BankStatementWords)
      /\ docRet.value = "invoice" <=>
           (~HasWord(BankStatementWords) /\ HasWord(InvoiceWords))
      /\ docRet.value = "gst_notice" <=>
           (~HasWord(BankStatementWords) /\ ~HasWord(InvoiceWords)
            /\ HasWord(GstNoticeWords))

C18_Witness_SeveralSets ==
    /\ docOp = "detect_document_type"
    /\ HasWord(BankStatementWords) /\ HasWord(InvoiceWords) /\ HasWord(GstNoticeWords)
    /\ docRet.value = "bank_statement"

(***************************************************************************)
(* Properties of _auto_categorize_transaction                              *)
(***************************************************************************)

\* The lower-cased description holds a keyword of category c.
HasKeywordOf(c) ==
    \E i \in 1..Len(Categories[c].keywords) :
      Contains(StrLower(docText), Categories[c].keywords[i])

CategoryOrder == <<"food", "fuel", "utilities", "transport", "shopping", "medical",
                   "education", "entertainment">>

\* C19: _auto_categorize_transaction returns the first category, in the
\* order food, fuel, utilities, transport, shopping, medical, education,
\* entertainment, one of whose keywords is a substring of the lower-cased
\* description, and miscellaneous when there is none; "Payment to Swiggy"
\* gives food, "Petrol Pump Payment" fuel, "Electricity Bill" utilities,
\* "Amazon Purchase" shopping and "Unknown Payment" miscellaneous.
C19_FirstCategoryInTableOrder ==
    docOp = "_auto_categorize_transaction" =>
      /\ [c \in 1..Len(Categories) |-> Categories[c].name] = CategoryOrder
      /\ \A c \in 1..Len(CategoryOrder) :
           docRet.value = CategoryOrder[c]
             <=> (HasKeywordOf(c) /\ \A b \in 1..(c - 1) : ~HasKeywordOf(b))
      /\ docRet.value = "miscellaneous" <=> \A c \in 1..Len(CategoryOrder) : ~HasKeywordOf(c)
      /\ docText = <<"P", "a", "y", "m", "e", "n", "t", " ", "t", "o", " ", "S", "w", "i", "g", "g", "y">> => docRet.value = "food"
      /\ docText = <<"P", "e", "t", "r", "o", "l", " ", "P", "u", "m", "p", " ", "P", "a", "y", "m", "e", "n", "t">> => docRet.value = "fuel"
      /\ docText = <<"E", "l", "e", "c", "t", "r", "i", "c", "i", "t", "y", " ", "B", "i", "l", "l">> => docRet.value = "utilities"
      /\ docText = <<"A", "m", "a", "z", "o", "n", " ", "P", "u", "r", "c", "h", "a", "s", "e">> => docRet.value = "shopping"
      /\ docText = <<"U", "n", "k", "n", "o", "w", "n", " ", "P", "a", "y", "m", "e", "n", "t">> => docRet.value = "miscellaneous"

\* "Gas Cylinder": gas is a keyword of fuel and of utilities.
C19_Witness_KeywordOfTwoCategories ==
    /\ docOp = "_auto_categorize_transaction"
    /\ HasKeywordOf(2) /\ HasKeywordOf(3)
    /\ docRet.value = "fuel"

(***************************************************************************)
(* Properties of the line items                                            *)
(***************************************************************************)

\* The line holds a digit sequence followed by the currency symbol: digits,
\* perhaps a dot and more digits, perhaps blanks, then the rupee sign.
DigitsThenCurrency(line) ==
    \E i, j \in 1..Len(line) :
      /\ i < j
      /\ line[i] \in Digit
      /\ line[j] = Rupee
      /\ \/ \A k \in (i + 1)..(j - 1) : line[k] \in SpaceChar
         \/ /\ i + 1 < j
            /\ line[i + 1] = "."
            /\ \A k \in (i + 2)..(j - 1) : line[k] \in SpaceChar

ItemLinesOf(text) == SelectSeq(Split(text), DigitsThenCurrency)

\* The line items of the call, when it returned some.
LineItemsReturned ==
    \/ docOp = "_extract_line_items"
    \/ docOp = "parse_invoice" /\ docRet.kind = "invoice"
LineItems == IF docOp = "parse_invoice" THEN docRet.line_items ELSE docRet.value

\* C20: for every invoice text, line_items has at most 10 entries; they are
\* the first lines, up to 10 and in document order, that hold a digit
\* sequence followed by a currency symbol; every entry has quantity 1.
C20_FirstTenItemLines ==
    LineItemsReturned =>
      /\ Len(LineItems) <= 10
      /\ Len(LineItems) = Len(ItemLinesOf(docText)) \/ Len(LineItems) = 10
      /\ Len(LineItems) <= Len(ItemLinesOf(docText))
      /\ \A i \in 1..Len(LineItems) :
           /\ LineItems[i].description = Strip(ItemLinesOf(docText)[i])
           /\ LineItems[i].quantity = 1

C20_Witness_MoreThanTenItemLines ==
    /\ docOp = "parse_invoice" /\ docRet.kind = "invoice"
    /\ Len(ItemLinesOf(docText)) > 10
    /\ Len(ItemLinesOf(docText)) < Len(Split(docText))
    /\ Len(docRet.line_items) = 10

\* No line of the text is long enough, once stripped, to be parsed.
NoLongLine(text) ==
    \A i \in 1..Len(Split(text)) : Len(Strip(Split(text)[i])) < MinLineLen

\* C21: parse_bank_statement raises for no text, be it empty, without a
\* line that parses, or of lines shorter than 10 characters; at worst it
\* returns an empty transactions list with parsing_confidence 0.
C21_StatementNeverRaises ==
    docOp = "parse_bank_statement" =>
      /\ docRet.kind # "raised"
      /\ docRet.kind = "statement"
      /\ (docText = <<>> \/ NoLongLine(docText)
          \/ \A i \in 1..Len(Split(docText)) : NoDateMatch(Split(docText)[i]))
         => (docRet.transactions = <<>> /\ docRet.parsing_confidence = 0)

C21_Witness_EmptyText ==
    /\ docOp = "parse_bank_statement"
    /\ docText = <<>>
    /\ docRet.kind = "statement"
    /\ docRet.transactions = <<>>
    /\ docRet.parsing_confidence = 0
    /\ docRet.summary.total_transactions = 0

(***************************************************************************)
(* Properties of the amounts the parsers take from a text                  *)
(***************************************************************************)

PlainATMLine == StatementLines[2]
CgstLine == InvoiceLines[14]
GstLine == InvoiceLines[15]

\* The line with a blank in the place of the date the line parser found.
WithoutDate(line) ==
    LET m == FirstMatch(DatePatterns, 1, line, FALSE)
    IN IF m.ok THEN Slice(line, 1, m.start) \o <<" ">> \o Slice(line, m.end, Len(line) + 1)
       ELSE line

\* C25: the amount of a record of _parse_transaction_line is never taken
\* from digits of the matched date: it is an amount found in the rest of the
\* line, and for "02/01/2024 ATM Withdrawal Dr 2000", whose amount is a plain
\* integer, it is 2000.
C25_AmountNotFromDateDigits ==
    (docOp = "_parse_transaction_line" /\ docRet.kind = "transaction" /\ IsLine(docText)) =>
      /\ docText = PlainATMLine => docRet.amount = <<2000, 0>>
      /\ ExtractAmountFromLine(WithoutDate(docText)) # None
      /\ docRet.amount = ExtractAmountFromLine(WithoutDate(docText))

\* C26: in the tax sum of _extract_amounts every labelled tax amount counts
\* once: "CGST: 100" adds 100 to the tax, not 200, as "GST: 100" does.
C26_EachTaxAmountCountsOnce ==
    (docOp = "_extract_amounts" /\ docRet.kind = "amounts"
        /\ ~HasLine(CgstRsLine) /\ ~HasLine(SgstRsLine)
        /\ (HasLine(CgstLine) \/ HasLine(GstLine)))
    => Is(docRet.tax, <<100 * (Count(HasLine(CgstLine)) + Count(HasLine(GstLine))), 0>>)

\* C27: the line parser discards every line without a non-zero amount, so
\* the parsing_confidence of parse_bank_statement is 0 or 1 only: 1 whenever
\* a transaction is returned, 0 only when the transactions list is empty.
C27_ConfidenceIsZeroOrOne ==
    StatementReturned =>
      /\ \A i \in 1..Len(docRet.transactions) :
           /\ docRet.transactions[i].amount # None
           /\ docRet.transactions[i].amount # DecZero
      /\ docRet.parsing_confidence \in {0, 100}
      /\ docRet.parsing_confidence = 100 <=> docRet.transactions # <<>>
      /\ docRet.parsing_confidence = 0 <=> docRet.transactions = <<>>

\* A dated line with the amount 0.00 stands beside lines that are parsed.
C27_Witness_ZeroAmountLineDiscarded ==
    /\ StatementReturned
    /\ HasLine(StatementLines[7])
    /\ docRet.transactions # <<>>
    /\ Len(docRet.transactions) < Len(Split(docText))
    /\ docRet.parsing_confidence = 100

\* The stripped lines of the text that are long enough to be parsed and
\* give a record, in the order of the text.
RecordLines(text) ==
    SelectSeq([i \in 1..Len(Split(text)) |-> Strip(Split(text)[i])],
              LAMBDA line : Len(line) >= 10 /\ ParseTransactionLine(line).kind = "transaction")

\* The amounts of all the transactions, in order.
AllAmounts(transactions) == [i \in 1..Len(transactions) |-> transactions[i].amount]

\* C28: every transaction parse_bank_statement returns is a debit or a
\* credit and is counted in exactly one of the two totals, so that
\* total_debits + total_credits is the sum of the amounts of all returned
\* transactions; the transactions stand in the order of their source lines,
\* and none comes from a line shorter than 10 characters once stripped.
C28_EveryTransactionInOneTotal ==
    StatementReturned =>
      /\ \A i \in 1..Len(docRet.transactions) :
           docRet.transactions[i].transaction_type \in {"debit", "credit"}
      /\ AddDec(docRet.summary.total_debits, docRet.summary.total_credits)
           = SumDec(AllAmounts(docRet.transactions))
      /\ Len(docRet.transactions) = Len(RecordLines(docText))
      /\ \A i \in 1..Len(docRet.transactions) :
           docRet.transactions[i] = ParseTransactionLine(RecordLines(docText)[i])

\* A short line that the line parser would take, before a credit and a debit.
C28_Witness_ShortLineSkipped ==
    /\ StatementReturned
    /\ \E i \in 1..Len(Split(docText)) :
         /\ Len(Strip(Split(docText)[i])) < 10
         /\ ParseTransactionLine(Strip(Split(docText)[i])).kind = "transaction"
    /\ Len(docRet.transactions) = 2
    /\ docRet.transactions[1].transaction_type = "credit"
    /\ docRet.transactions[2].transaction_type = "debit"

(***************************************************************************)
(* extract_text_from_image with an explicit method                         *)
(***************************************************************************)

Uploaded == request # NoRequest
TooLarge == request.file.size > MaxFileSize
NotAllowed == request.file.content_type \notin AllowedTypes

\* C23: an upload whose content is larger than the configured maximum, or
\* whose content type is not an allowed type, makes save_upload_file raise
\* a ValueError, "File too large" when the size is over the maximum
\* (whatever the type) and "File type not allowed" otherwise, with no file
\* written; process_document then answers HTTP 400 with that message and
\* adds no background task.
C23_RejectedUploadWritesAndSchedulesNothing ==
    Uploaded /\ (TooLarge \/ NotAllowed) =>
      /\ SaveUploadFile(request.file).ret =
           RaisedWith("ValueError", IF TooLarge THEN "File too large"
                                    ELSE "File type not allowed")
      /\ SaveUploadFile(request.file).written = {}
      /\ files = {}
      /\ response.status_code = 400
      /\ response.detail[2] = (IF TooLarge THEN "File too large"
                               ELSE "File type not allowed")
      /\ job = NoJob

\* An upload that is both too large and of a type not allowed was answered.
C23_Witness_TooLargeAndNotAllowed ==
    Uploaded /\ TooLarge /\ NotAllowed /\ response.status_code = 400

JobDone == job.pc = "done"
AskedAI == JobDone /\ Len(job.ai_replies) > 0
ExpectedObject(reply) ==
    reply.kind = "content" /\ reply.json.decodes /\ reply.json.value.type = "dict"

\* C22: whatever the chat completion does (an answer that decodes to a
\* JSON object, an exception, an answer that does not), categorize_transaction
\* returns an annotation, the "Miscellaneous" fallback when the answer is
\* not the expected object, and the job of a parsed bank statement reports
\* success with the statement the parser returned.
C22_ParsedOutputSurvivesAnyAIReply ==
    AskedAI =>
      /\ \A i \in 1..Len(job.ai_replies) :
           /\ CategorizeTransaction(job.ai_replies[i]).type = "dict"
           /\ ~ExpectedObject(job.ai_replies[i]) =>
                CategorizeTransaction(job.ai_replies[i]) = FallbackCategory
      /\ Len(reports) = 1
      /\ reports[1].success
      /\ reports[1].data.processed_data = job.processed_data
      /\ job.processed_data = ParseBankStatement(job.extracted_text)

\* The states of the job in which C24 constrains the report and the cleanup.
C24_ReportThenCleanup ==
    /\ Len(reports) <= 1
    /\ job.pc \in {"finally", "done"} => Len(reports) = 1
    /\ removed # <<>> => JobDone
    /\ JobDone =>
         /\ reports[1].success \/ reports[1].error # None
         /\ removed[1] = job.file_info.file_path
         /\ job.file_path # job.file_info.file_path =>
              removed = <<job.file_info.file_path, job.file_path>>
         /\ files = {}

\* C24: a started background job reaches its end whatever the OCR, the
\* parser and the AI step do; it hands exactly one result to
\* send_results_to_backend, a success or a failure with the error, and only
\* afterwards removes the uploaded file and, when it is another file, the
\* converted image.
C24_JobEndsWithOneReportThenCleanup ==
    /\ [](C24_ReportThenCleanup)
    /\ (job.pc # "none") ~> JobDone

\* A job whose parser raised has reported the failure and removed the
\* upload and the converted image.
C24_Witness_FailedJobCleanedBothFiles ==
    JobDone /\ ~reports[1].success /\ Len(removed) = 2

(***************************************************************************)
(* Properties of WhatsAppAIService.process_incoming_message                *)
(***************************************************************************)

Answered == waResponse # Pending

\* The body as a command is read: lower-cased, without the white space
\* around it.
Command == Strip(StrLower(waMessage.message_body))
IsNil == Command = <<"n", "i", "l">> \/ Command = <<"n", "i", "l", " ", "f", "i", "l", "i", "n", "g">>
IsStatus == Command = <<"s", "t", "a", "t", "u", "s">> \/ Command = <<"g", "s", "t", " ", "s", "t", "a", "t", "u", "s">>
IsHelp == Command = <<"h", "e", "l", "p">> \/ Command = <<"m", "e", "n", "u">>
IsCommand == IsNil \/ IsStatus \/ IsHelp
MediaAttached == waMessage.media_url # None
ProcessingActions == {"nil_filing", "status_check", "document_upload"}
DispatchedActions == {"nil_filing", "status_check", "document_processing"}

\* C30: process_incoming_message answers by a fixed precedence: a body
\* that is exactly a command (nil / nil filing, status / gst status, help /
\* menu, in any case and with white space around it) decides the action
\* even when media is attached; otherwise attached media gives
\* document_upload; otherwise a body of more than 10 characters is an AI
\* query (ai_query, or error when the AI service raised); otherwise the
\* default reply.  requires_processing is set exactly for nil_filing,
\* status_check and document_upload, and then the action of processing_data
\* is one that handle_whatsapp_processing has a handler for.
C30_DispatchByPrecedence ==
    Answered =>
      /\ IsNil => waResponse.action_type = "nil_filing"
      /\ IsStatus => waResponse.action_type = "status_check"
      /\ IsHelp => waResponse.action_type = "help"
      /\ ~IsCommand /\ MediaAttached => waResponse.action_type = "document_upload"
      /\ ~IsCommand /\ ~MediaAttached /\ Len(waMessage.message_body) > 10 =>
           waResponse.action_type \in {"ai_query", "error"}
      /\ ~IsCommand /\ ~MediaAttached /\ Len(waMessage.message_body) <= 10 =>
           waResponse.action_type = "default"
      /\ waResponse.requires_processing <=> waResponse.action_type \in ProcessingActions
      /\ waResponse.requires_processing =>
           /\ waResponse.processing_data.action \in DispatchedActions
           /\ waTask = waResponse.processing_data
      /\ ~waResponse.requires_processing => waTask = NoTask
      /\ waHandled # None =>
           waHandled \in {"process_whatsapp_document", "forward_nil_filing_request",
                          "handle_status_check"}

\* " Nil Filing " came with media attached and was forwarded as a NIL filing.
C30_Witness_CommandWithMediaForwarded ==
    /\ Answered
    /\ waMessage.message_body = <<" ", "N", "i", "l", " ", "F", "i", "l", "i", "n", "g", " ">>
    /\ MediaAttached
    /\ waHandled = "forward_nil_filing_request"

====
